---- MODULE Spec2Model ----
(***************************************************************************)
(* State-machine model of the ARD soil dashboard front end (React/Next.js). *)
(* Every view is an independent component tree: its hook state, its refs    *)
(* and its request in flight form one record.  The views share no state,    *)
(* so the model mounts one of them at a time (variable mounted); a mount    *)
(* runs the first render and the mount effects, an unmount runs the effect  *)
(* cleanups and discards the hook state.                                    *)
(*                                                                          *)
(* Numbers with a fractional part (coordinates) are scaled by 10^4.         *)
(***************************************************************************)
EXTENDS Integers, Sequences, FiniteSets, TLC

VARIABLES
    mounted,        \* the view currently mounted, or "none"
    farmsPage,      \* app/farms/page.tsx        FarmsPage
    farmsDropdown,  \* components/FarmsDropdown.tsx  FarmsDropdown
    farmPage,       \* app/farm/[id]/page.tsx     FarmPage
    homeMap,        \* the Leaflet home page      Home (farms fetch)
    soilPointsMap,  \* app/soil_points/page.tsx   SoilPointsMap
    regionMap,      \* app/page.tsx               Home (US state map)
    heatmapLayer,   \* components/SoilDashboard.tsx  SoilHeatmapLayer
    farmMarkers,    \* components/FarmMarkers.tsx FarmMarkers
    mapController,  \* the Google map container   MapController
    mapContainer,  \* components/MapContainer.tsx  MapContainer and its parent
    trackedMap,  \* the interaction-tracking Leaflet MapContainer
    satelliteMap,  \* components/SatelliteMap.tsx  SatelliteMap
    farmMarkersLayer,  \* the Google Maps farm markers  FarmMarkersLayer
    chatButton,  \* components/ChatButton.tsx  ChatButton
    metricsSidebar,  \* components/MetricsSidebar.tsx  MetricsSidebar
    soilDashboard,  \* components/SoilDashboard.tsx  SoilDashboard
    healthBadge     \* a farm's health badge: its score and the colours drawn

vars == <<mounted, farmsPage, farmsDropdown, farmPage, homeMap, soilPointsMap,
          regionMap, heatmapLayer, farmMarkers, mapController, mapContainer,
          trackedMap,
          satelliteMap,
          farmMarkersLayer,
          chatButton,
          metricsSidebar,
          soilDashboard,
          healthBadge>>

\* Every view but the one an action belongs to keeps its state.
Frame(view) ==
    /\ IF view = "FarmsPage" THEN TRUE ELSE UNCHANGED farmsPage
    /\ IF view = "FarmsDropdown" THEN TRUE ELSE UNCHANGED farmsDropdown
    /\ IF view = "FarmPage" THEN TRUE ELSE UNCHANGED farmPage
    /\ IF view = "HomeMap" THEN TRUE ELSE UNCHANGED homeMap
    /\ IF view = "SoilPointsMap" THEN TRUE ELSE UNCHANGED soilPointsMap
    /\ IF view = "RegionMap" THEN TRUE ELSE UNCHANGED regionMap
    /\ IF view = "SoilHeatmapLayer" THEN TRUE ELSE UNCHANGED heatmapLayer
    /\ IF view = "FarmMarkers" THEN TRUE ELSE UNCHANGED farmMarkers
    /\ IF view = "MapController" THEN TRUE ELSE UNCHANGED mapController
    /\ IF view = "MapContainer" THEN TRUE ELSE UNCHANGED mapContainer
    /\ IF view = "MapContainerTracked" THEN TRUE ELSE UNCHANGED trackedMap
    /\ IF view = "SatelliteMap" THEN TRUE ELSE UNCHANGED satelliteMap
    /\ IF view = "FarmMarkersLayer" THEN TRUE ELSE UNCHANGED farmMarkersLayer
    /\ IF view = "ChatButton" THEN TRUE ELSE UNCHANGED chatButton
    /\ IF view = "MetricsSidebar" THEN TRUE ELSE UNCHANGED metricsSidebar
    /\ IF view = "SoilDashboard" THEN TRUE ELSE UNCHANGED soilDashboard
    /\ IF view = "HealthBadge" THEN TRUE ELSE UNCHANGED healthBadge

\* JavaScript null, for string-valued and for object-valued state.
NULL == "null"
NullObj == [isNull |-> TRUE]

\* JavaScript truthiness of a string | null value ({error && ...}).
Truthy(s) == s # NULL /\ s # ""

\* Viewports the user or the parent may move a map to.
Centers == {<<247136, 466753>>, <<241483, 473050>>}
Zooms == {12, 13}

----------------------------------------------------------------------------
(* Data: the Farm shape, the hardcoded fallback, what the servers answer.   *)

\* FARMS_DATA: one sample farm, health "good" with healthScore 75.
FARMS_DATA ==
    << [id |-> "1", name |-> "Farm 1", coordinates |-> <<241500, 473000>>,
        health |-> "good", healthScore |-> 75] >>

\* Farms the farms API may hold (an opaque collaborator: any Farm shape).
ServerFarm(i) ==
    CASE i = "1" -> [id |-> "1", name |-> "Al Kharj", coordinates |-> <<241483, 473050>>,
                     health |-> "good", healthScore |-> 85]
      [] i = "2" -> [id |-> "2", name |-> "Hail", coordinates |-> <<275114, 416900>>,
                     health |-> "warning", healthScore |-> 62]

ServerFarmIds == {"1", "2"}

\* What GET /api/farms may answer with: response.farms.
ServerFarmLists ==
    { <<>>, <<ServerFarm("1")>>, <<ServerFarm("1"), ServerFarm("2")>> }

\* What a rejected request rejects with: the Errors api.ts throws, and a
\* value that is no Error (the handlers test err instanceof Error).
Rejections ==
    { [isError |-> TRUE, message |-> "Unable to connect to Farms API server. Is the backend running?"],
      [isError |-> TRUE, message |-> "HTTP 500"],
      [isError |-> FALSE, message |-> ""] }

\* err instanceof Error ? err.message : fallback
ErrorMessage(err, fallback) == IF err.isError THEN err.message ELSE fallback

----------------------------------------------------------------------------
(* FarmsPage (app/farms/page.tsx)                                           *)

\* The hook state before the mount effect has run; also the state of the
\* view while it is not mounted.
FarmsPage_initial ==
    [farms |-> <<>>, loading |-> TRUE, error |-> NULL,
     request |-> "none", requests |-> 0]

\* fetchFarms, up to the await: api.getFarms(50) is issued.
FarmsPage_fetchFarms(s) ==
    [s EXCEPT !.request = "pending", !.requests = @ + 1]

\* fetchFarms, try branch after the await, then finally.
FarmsPage_fetchFarms_try(s, response) ==
    [s EXCEPT !.farms = response, !.loading = FALSE, !.request = "fulfilled"]

\* Mutant: the catch branch without the fallback data.
FarmsPage_fetchFarms_catch_noFallback(s, err) ==
    [s EXCEPT !.error = ErrorMessage(err, "Failed to load farms"),
              !.loading = FALSE,
              !.request = "rejected"]

\* fetchFarms, catch branch, then finally.
FarmsPage_fetchFarms_catch(s, err) ==
    [s EXCEPT !.error = ErrorMessage(err, "Failed to load farms"),
              !.farms = FARMS_DATA,
              !.loading = FALSE,
              !.request = "rejected"]

\* Mutant: the good bucket starts above 80.
FarmsPage_getHealthColor_strict(score) ==
    IF score > 80 THEN "#4ade80"
    ELSE IF score >= 60 THEN "#facc15"
    ELSE "#f87171"

\* getHealthColor of the farms page.
FarmsPage_getHealthColor(score) ==
    IF score >= 80 THEN "#4ade80"
    ELSE IF score >= 60 THEN "#facc15"
    ELSE "#f87171"

\* What the page renders.
\* getHealthLabel of the farms page.
FarmsPage_getHealthLabel(health) ==
    IF health = "good" THEN "Healthy"
    ELSE IF health = "warning" THEN "Needs Attention"
    ELSE "Critical"

\* The health-badge of a card: its colour and its text.
FarmsPage_healthBadge(farm) ==
    [color |-> FarmsPage_getHealthColor(farm.healthScore),
     label |-> FarmsPage_getHealthLabel(farm.health)]

FarmsPage_showsSpinner == farmsPage.loading
FarmsPage_showsBanner == ~farmsPage.loading /\ Truthy(farmsPage.error)
FarmsPage_cards == IF farmsPage.loading THEN <<>> ELSE farmsPage.farms

FarmsPage_getFarmsResolves ==
    /\ mounted = "FarmsPage"
    /\ farmsPage.request = "pending"
    /\ \E response \in ServerFarmLists :
          farmsPage' = FarmsPage_fetchFarms_try(farmsPage, response)
    /\ UNCHANGED mounted
    /\ Frame("FarmsPage")

FarmsPage_getFarmsRejects ==
    /\ mounted = "FarmsPage"
    /\ farmsPage.request = "pending"
    /\ \E err \in Rejections :
          farmsPage' = FarmsPage_fetchFarms_catch(farmsPage, err)
    /\ UNCHANGED mounted
    /\ Frame("FarmsPage")

FarmsPage_unmount ==
    /\ mounted = "FarmsPage"
    /\ mounted' = "none"
    /\ farmsPage' = FarmsPage_initial
    /\ Frame("FarmsPage")

----------------------------------------------------------------------------
(* FarmsDropdown (components/FarmsDropdown.tsx)                             *)

FarmsDropdown_initial ==
    [isOpen |-> FALSE, farms |-> <<>>, loading |-> FALSE, error |-> NULL,
     request |-> "none", requests |-> 0]

\* fetchFarms, up to the await.
FarmsDropdown_fetchFarms(s) ==
    [s EXCEPT !.loading = TRUE, !.error = NULL,
              !.request = "pending", !.requests = @ + 1]

\* Mutant: a failed fetch is tried again.
FarmsDropdown_fetchFarms_catch_retry(s, err) ==
    [s EXCEPT !.error = ErrorMessage(err, "Failed to load farms"),
              !.farms = FARMS_DATA,
              !.request = "pending", !.requests = @ + 1]

FarmsDropdown_fetchFarms_try(s, response) ==
    [s EXCEPT !.farms = response, !.loading = FALSE, !.request = "fulfilled"]

FarmsDropdown_fetchFarms_catch(s, err) ==
    [s EXCEPT !.error = ErrorMessage(err, "Failed to load farms"),
              !.farms = FARMS_DATA,
              !.loading = FALSE,
              !.request = "rejected"]

\* onClick of the trigger button.
FarmsDropdown_trigger_onClick(s) == [s EXCEPT !.isOpen = ~s.isOpen]

\* onClick of a farm item's Link.
FarmsDropdown_item_onClick(s) == [s EXCEPT !.isOpen = FALSE]

\* Mutant: closing the menu drops the farms.
FarmsDropdown_handleClickOutside_clears(s) ==
    [s EXCEPT !.isOpen = FALSE, !.farms = <<>>]

\* handleClickOutside, for a mousedown outside the dropdown.
FarmsDropdown_handleClickOutside(s) == [s EXCEPT !.isOpen = FALSE]

\* getHealthColor of the dropdown.
FarmsDropdown_getHealthColor(score) ==
    IF score >= 80 THEN "#4ade80"
    ELSE IF score >= 60 THEN "#facc15"
    ELSE "#f87171"

\* The dropdown-list of the open menu: "loading", "error" or "farms".
FarmsDropdown_listState ==
    IF farmsDropdown.loading THEN "loading"
    ELSE IF Truthy(farmsDropdown.error) THEN "error"
    ELSE "farms"

\* The farm items the open menu lists.
FarmsDropdown_items ==
    IF farmsDropdown.isOpen /\ FarmsDropdown_listState = "farms"
    THEN farmsDropdown.farms ELSE <<>>

\* The error-state line of the open menu.
FarmsDropdown_showsError ==
    farmsDropdown.isOpen /\ FarmsDropdown_listState = "error"

FarmsDropdown_getFarmsResolves ==
    /\ mounted = "FarmsDropdown"
    /\ farmsDropdown.request = "pending"
    /\ \E response \in ServerFarmLists :
          farmsDropdown' = FarmsDropdown_fetchFarms_try(farmsDropdown, response)
    /\ UNCHANGED mounted
    /\ Frame("FarmsDropdown")

FarmsDropdown_getFarmsRejects ==
    /\ mounted = "FarmsDropdown"
    /\ farmsDropdown.request = "pending"
    /\ \E err \in Rejections :
          farmsDropdown' = FarmsDropdown_fetchFarms_catch(farmsDropdown, err)
    /\ UNCHANGED mounted
    /\ Frame("FarmsDropdown")

FarmsDropdown_clickTrigger ==
    /\ mounted = "FarmsDropdown"
    /\ farmsDropdown' = FarmsDropdown_trigger_onClick(farmsDropdown)
    /\ UNCHANGED mounted
    /\ Frame("FarmsDropdown")

FarmsDropdown_clickItem ==
    /\ mounted = "FarmsDropdown"
    /\ Len(FarmsDropdown_items) > 0
    /\ farmsDropdown' = FarmsDropdown_item_onClick(farmsDropdown)
    /\ UNCHANGED mounted
    /\ Frame("FarmsDropdown")

FarmsDropdown_clickOutside ==
    /\ mounted = "FarmsDropdown"
    /\ farmsDropdown' = FarmsDropdown_handleClickOutside(farmsDropdown)
    /\ UNCHANGED mounted
    /\ Frame("FarmsDropdown")

FarmsDropdown_unmount ==
    /\ mounted = "FarmsDropdown"
    /\ mounted' = "none"
    /\ farmsDropdown' = FarmsDropdown_initial
    /\ Frame("FarmsDropdown")

----------------------------------------------------------------------------
(* FarmPage (app/farm/[id]/page.tsx), the API-backed farm detail page       *)

\* Most api.getFarm requests one mount may issue (farmId changes + 1).
MaxFarmRequests == 3

\* The farm ids a route /farm/[id] may carry; "3" is unknown to the server.
RouteFarmIds == {"1", "2", "3"}

\* useState initial values; farmId is params.id.  requests is the list of
\* api.getFarm promises issued so far, each with its farmId and its state.
FarmPage_initial ==
    [farmId |-> NULL, farm |-> NullObj, loading |-> TRUE, error |-> NULL,
     mapCenter |-> <<247136, 466753>>, requests |-> <<>>]

\* FARMS_DATA.find(f => f.id === farmId): the first match, or undefined.
FARMS_DATA_find(farmId) ==
    LET hits == {i \in 1..Len(FARMS_DATA) : FARMS_DATA[i].id = farmId}
    IN  IF hits = {} THEN NullObj
        ELSE FARMS_DATA[CHOOSE i \in hits : \A j \in hits : i <= j]

\* fetchFarm up to the await: setLoading(true); setError(null); getFarm(farmId).
FarmPage_fetchFarm(s) ==
    [s EXCEPT !.loading = TRUE, !.error = NULL,
              !.requests = Append(@, [farmId |-> s.farmId, state |-> "pending"])]

\* fetchFarm of request i, try branch after the await, then finally.
FarmPage_fetchFarm_try(s, i, farmData) ==
    [s EXCEPT !.farm = farmData,
              !.mapCenter = farmData.coordinates,
              !.loading = FALSE,
              !.requests[i].state = "fulfilled"]

\* fetchFarm of request i, catch branch, then finally.  farmId is the one
\* the closure of request i captured.
FarmPage_fetchFarm_catch(s, i, err) ==
    LET fallbackFarm == FARMS_DATA_find(s.requests[i].farmId)
        t == [s EXCEPT !.error = ErrorMessage(err, "Failed to load farm"),
                       !.loading = FALSE,
                       !.requests[i].state = "rejected"]
    IN  IF fallbackFarm # NullObj
        THEN [t EXCEPT !.farm = fallbackFarm,
                       !.mapCenter = fallbackFarm.coordinates]
        ELSE t

\* What the page renders: "loading", "not-found" or "farm".
FarmPage_view ==
    IF farmPage.loading THEN "loading"
    ELSE IF farmPage.farm = NullObj THEN "not-found"
    ELSE "farm"

\* The route parameter changes: the [farmId] effect runs again.
FarmPage_farmIdChanges ==
    /\ mounted = "FarmPage"
    /\ Len(farmPage.requests) < MaxFarmRequests
    /\ \E id \in RouteFarmIds \ {farmPage.farmId} :
          farmPage' = FarmPage_fetchFarm([farmPage EXCEPT !.farmId = id])
    /\ UNCHANGED mounted
    /\ Frame("FarmPage")

FarmPage_getFarmResolves ==
    /\ mounted = "FarmPage"
    /\ \E i \in 1..Len(farmPage.requests) :
          /\ farmPage.requests[i].state = "pending"
          /\ farmPage.requests[i].farmId \in ServerFarmIds
          /\ farmPage' = FarmPage_fetchFarm_try(farmPage, i,
                            ServerFarm(farmPage.requests[i].farmId))
    /\ UNCHANGED mounted
    /\ Frame("FarmPage")

FarmPage_getFarmRejects ==
    /\ mounted = "FarmPage"
    /\ \E i \in 1..Len(farmPage.requests), err \in Rejections :
          /\ farmPage.requests[i].state = "pending"
          /\ farmPage' = FarmPage_fetchFarm_catch(farmPage, i, err)
    /\ UNCHANGED mounted
    /\ Frame("FarmPage")

FarmPage_unmount ==
    /\ mounted = "FarmPage"
    /\ mounted' = "none"
    /\ farmPage' = FarmPage_initial
    /\ Frame("FarmPage")

----------------------------------------------------------------------------
(* Home, the Leaflet map page with farm markers: its farms fetch            *)

HomeMap_initial == [farms |-> <<>>, request |-> "none", requests |-> 0]

\* fetchFarms up to the await.
HomeMap_fetchFarms(s) == [s EXCEPT !.request = "pending", !.requests = @ + 1]

HomeMap_fetchFarms_try(s, response) ==
    [s EXCEPT !.farms = response, !.request = "fulfilled"]

\* catch: console.error only.
HomeMap_fetchFarms_catch(s, err) == [s EXCEPT !.request = "rejected"]

\* The page has no error state and renders no banner.
HomeMap_showsBanner == FALSE

\* The farms handed to <FarmMarkers farms={farms} />.
HomeMap_markerFarms == homeMap.farms

HomeMap_getFarmsResolves ==
    /\ mounted = "HomeMap"
    /\ homeMap.request = "pending"
    /\ \E response \in ServerFarmLists :
          homeMap' = HomeMap_fetchFarms_try(homeMap, response)
    /\ UNCHANGED mounted
    /\ Frame("HomeMap")

HomeMap_getFarmsRejects ==
    /\ mounted = "HomeMap"
    /\ homeMap.request = "pending"
    /\ \E err \in Rejections :
          homeMap' = HomeMap_fetchFarms_catch(homeMap, err)
    /\ UNCHANGED mounted
    /\ Frame("HomeMap")

HomeMap_unmount ==
    /\ mounted = "HomeMap"
    /\ mounted' = "none"
    /\ homeMap' = HomeMap_initial
    /\ Frame("HomeMap")

----------------------------------------------------------------------------
(* SoilPointsMap (app/soil_points/page.tsx)                                 *)

\* GeoJSON features the samples API may hold; properties.id is the key of
\* the rendered circle.  oc is properties['oc_usda.c729_w.pct'].
SamplePoints ==
    { [id |-> "s1", oc |-> 90], [id |-> "s2", oc |-> 70], [id |-> "s3", oc |-> 40] }

SamplePoint(i) == CHOOSE p \in SamplePoints : p.id = i

\* geojson.features of a successful GET /api/samples.
ServerSampleLists ==
    { <<>>, <<SamplePoint("s1")>>, <<SamplePoint("s1"), SamplePoint("s2")>>,
      <<SamplePoint("s1"), SamplePoint("s2"), SamplePoint("s3")>> }

\* The ways fetchSoilData's try block throws: fetch rejects, response.ok is
\* false, response.json() rejects.
SampleFailures == {"fetch", "status", "json"}

\* A non-null SoilPointFeature[] value of the soilPoints state.
Features(list) == [features |-> list]

SoilPointsMap_initial ==
    [soilPoints |-> NullObj, selectedPoint |-> NullObj, hoveredPoint |-> NullObj,
     isLoading |-> TRUE, request |-> "none", requests |-> 0]

\* fetchSoilData up to the first await.
SoilPointsMap_fetchSoilData(s) ==
    [s EXCEPT !.request = "pending", !.requests = @ + 1]

\* Mutant: the try branch without the finally.
SoilPointsMap_fetchSoilData_try_noFinally(s, features) ==
    [s EXCEPT !.soilPoints = Features(features), !.request = "fulfilled"]

\* fetchSoilData, try branch after the awaits, then finally.
SoilPointsMap_fetchSoilData_try(s, features) ==
    [s EXCEPT !.soilPoints = Features(features), !.isLoading = FALSE,
              !.request = "fulfilled"]

\* Mutant: the catch branch leaves soilPoints as it was.
SoilPointsMap_fetchSoilData_catch_keeps(s, failure) ==
    [s EXCEPT !.isLoading = FALSE, !.request = "rejected"]

\* catch: console.error, setSoilPoints([]); then finally.
SoilPointsMap_fetchSoilData_catch(s, failure) ==
    [s EXCEPT !.soilPoints = Features(<<>>), !.isLoading = FALSE,
              !.request = "rejected"]

\* Mutant: a click with any point selected closes the panel.
SoilPointsMap_handleClick_closesAny(s, point) ==
    IF s.selectedPoint # NullObj
    THEN [s EXCEPT !.selectedPoint = NullObj]
    ELSE [s EXCEPT !.selectedPoint = point]

\* handleClick
SoilPointsMap_handleClick(s, point) ==
    IF s.selectedPoint # NullObj /\ s.selectedPoint.id = point.id
    THEN [s EXCEPT !.selectedPoint = NullObj]
    ELSE [s EXCEPT !.selectedPoint = point]

\* handleReset (the d3 zoom transform is not modelled)
SoilPointsMap_handleReset(s) ==
    [s EXCEPT !.selectedPoint = NullObj, !.hoveredPoint = NullObj]

\* soilPoints?.map(...): the circles drawn.
SoilPointsMap_circles ==
    IF soilPointsMap.soilPoints = NullObj THEN <<>>
    ELSE soilPointsMap.soilPoints.features

\* isSelected of the i-th circle.
SoilPointsMap_isSelected(i) ==
    /\ soilPointsMap.selectedPoint # NullObj
    /\ soilPointsMap.selectedPoint.id = SoilPointsMap_circles[i].id

SoilPointsMap_selectedCircles ==
    {i \in 1..Len(SoilPointsMap_circles) : SoilPointsMap_isSelected(i)}

\* {selectedPoint && ( ...details panel... )}
SoilPointsMap_panelVisible == soilPointsMap.selectedPoint # NullObj

\* "Sample ID: {selectedPoint.properties.id}"
SoilPointsMap_panelSampleId ==
    IF SoilPointsMap_panelVisible THEN soilPointsMap.selectedPoint.id ELSE NULL

\* The page has no error state and renders no banner.
SoilPointsMap_showsBanner == FALSE

SoilPointsMap_samplesResolve ==
    /\ mounted = "SoilPointsMap"
    /\ soilPointsMap.request = "pending"
    /\ \E features \in ServerSampleLists :
          soilPointsMap' = SoilPointsMap_fetchSoilData_try(soilPointsMap, features)
    /\ UNCHANGED mounted
    /\ Frame("SoilPointsMap")

SoilPointsMap_samplesFail ==
    /\ mounted = "SoilPointsMap"
    /\ soilPointsMap.request = "pending"
    /\ \E failure \in SampleFailures :
          soilPointsMap' = SoilPointsMap_fetchSoilData_catch(soilPointsMap, failure)
    /\ UNCHANGED mounted
    /\ Frame("SoilPointsMap")

\* onClick of the circle of point.
SoilPointsMap_clickPoint(point) ==
    /\ mounted = "SoilPointsMap"
    /\ \E i \in 1..Len(SoilPointsMap_circles) : SoilPointsMap_circles[i] = point
    /\ soilPointsMap' = SoilPointsMap_handleClick(soilPointsMap, point)
    /\ UNCHANGED mounted
    /\ Frame("SoilPointsMap")

\* onMouseEnter / onMouseLeave of a circle.
SoilPointsMap_mouseEnter ==
    /\ mounted = "SoilPointsMap"
    /\ \E i \in 1..Len(SoilPointsMap_circles) :
          soilPointsMap' = [soilPointsMap EXCEPT !.hoveredPoint = SoilPointsMap_circles[i]]
    /\ UNCHANGED mounted
    /\ Frame("SoilPointsMap")

SoilPointsMap_mouseLeave ==
    /\ mounted = "SoilPointsMap"
    /\ soilPointsMap.hoveredPoint # NullObj
    /\ soilPointsMap' = [soilPointsMap EXCEPT !.hoveredPoint = NullObj]
    /\ UNCHANGED mounted
    /\ Frame("SoilPointsMap")

\* onClick of the panel's close button.
SoilPointsMap_clickClose ==
    /\ mounted = "SoilPointsMap"
    /\ SoilPointsMap_panelVisible
    /\ soilPointsMap' = [soilPointsMap EXCEPT !.selectedPoint = NullObj]
    /\ UNCHANGED mounted
    /\ Frame("SoilPointsMap")

\* onClick of "Reset Map View".
SoilPointsMap_clickReset ==
    /\ mounted = "SoilPointsMap"
    /\ soilPointsMap' = SoilPointsMap_handleReset(soilPointsMap)
    /\ UNCHANGED mounted
    /\ Frame("SoilPointsMap")

SoilPointsMap_unmount ==
    /\ mounted = "SoilPointsMap"
    /\ mounted' = "none"
    /\ soilPointsMap' = SoilPointsMap_initial
    /\ Frame("SoilPointsMap")

----------------------------------------------------------------------------
(* Home, the US state map (app/page.tsx): region selection                  *)

\* STATE_META, three of its entries; regionLookup holds the same records.
STATE_META(id) ==
    CASE id = "06" -> [abbr |-> "CA", name |-> "California", region |-> "West Coast"]
      [] id = "36" -> [abbr |-> "NY", name |-> "New York", region |-> "Mid-Atlantic"]
      [] id = "48" -> [abbr |-> "TX", name |-> "Texas", region |-> "Gulf Coast"]

\* The ids of regionFeatures: the paths drawn and clickable.
RegionIds == {"06", "36", "48"}

DEFAULT_REGION_ID == "06"

\* getPlaceholderMetrics(): it takes no region.  energyUse and yoyChange
\* are scaled by 10.
getPlaceholderMetrics ==
    [activeSensors |-> 5 * 10, coverage |-> 75, avgLatency |-> 180,
     energyUse |-> 21, soilHealth |-> 68, yoyChange |-> 45]

RegionMap_initial ==
    [selectedRegion |-> DEFAULT_REGION_ID, hoveredRegion |-> NULL]

\* const activeMetrics = getPlaceholderMetrics();
RegionMap_activeMetrics == getPlaceholderMetrics

\* The "Selected state" panel: regionLookup[selectedRegion] and the metrics.
RegionMap_panel ==
    [name |-> STATE_META(regionMap.selectedRegion).name,
     stateAbbr |-> STATE_META(regionMap.selectedRegion).abbr,
     region |-> STATE_META(regionMap.selectedRegion).region,
     metrics |-> RegionMap_activeMetrics]

\* handleReset (the d3 zoom transform is not modelled)
RegionMap_handleReset(s) ==
    [s EXCEPT !.selectedRegion = DEFAULT_REGION_ID, !.hoveredRegion = NULL]

\* onClick of the path of region r.
RegionMap_clickRegion(r) ==
    /\ mounted = "RegionMap"
    /\ regionMap' = [regionMap EXCEPT !.selectedRegion = r]
    /\ UNCHANGED mounted
    /\ Frame("RegionMap")

\* onMouseEnter of a path.
RegionMap_mouseEnter ==
    /\ mounted = "RegionMap"
    /\ \E r \in RegionIds : regionMap' = [regionMap EXCEPT !.hoveredRegion = r]
    /\ UNCHANGED mounted
    /\ Frame("RegionMap")

\* onMouseLeave of a path: setHoveredRegion(current => current === r ? null : current)
RegionMap_mouseLeave ==
    /\ mounted = "RegionMap"
    /\ \E r \in RegionIds :
          regionMap' = [regionMap EXCEPT
                          !.hoveredRegion = IF @ = r THEN NULL ELSE @]
    /\ UNCHANGED mounted
    /\ Frame("RegionMap")

\* onMouseLeave of the svg.
RegionMap_svgMouseLeave ==
    /\ mounted = "RegionMap"
    /\ regionMap' = [regionMap EXCEPT !.hoveredRegion = NULL]
    /\ UNCHANGED mounted
    /\ Frame("RegionMap")

\* onClick of "Reset to California focus".
RegionMap_clickReset ==
    /\ mounted = "RegionMap"
    /\ regionMap' = RegionMap_handleReset(regionMap)
    /\ UNCHANGED mounted
    /\ Frame("RegionMap")

RegionMap_unmount ==
    /\ mounted = "RegionMap"
    /\ mounted' = "none"
    /\ regionMap' = RegionMap_initial
    /\ Frame("RegionMap")

----------------------------------------------------------------------------
(* SoilHeatmapLayer (components/SoilDashboard.tsx)                          *)
(* layers is the set of <<map, layer group>> attachments: the maps outlive  *)
(* the component, so layers and created survive its unmount.                *)

\* Most layer groups one mount may create.
MaxLayerGroups == 3

\* The Leaflet map instances a parent may hand down as the map prop.
Maps == {"m1", "m2"}

\* markersRef.current === null
NoLayer == 0

SoilHeatmapLayer_initial ==
    [map |-> NULL, farm |-> NullObj, visible |-> FALSE,
     L |-> FALSE, importPending |-> FALSE,
     markersRef |-> NoLayer, cleanup |-> NULL,
     layers |-> {}, created |-> 0]

\* Mutant: the cleanup clears the ref and leaves the group on the map.
SoilHeatmapLayer_cleanup_leaks(s) ==
    [s EXCEPT !.markersRef = NoLayer, !.cleanup = NULL]

\* The cleanup the last effect run returned, if it returned one: it removes
\* markersRef.current from the map that run captured.
SoilHeatmapLayer_cleanup(s) ==
    IF s.cleanup = NULL THEN s
    ELSE IF s.markersRef # NoLayer
         THEN [s EXCEPT !.layers = @ \ {<<s.cleanup, s.markersRef>>},
                        !.markersRef = NoLayer,
                        !.cleanup = NULL]
         ELSE [s EXCEPT !.cleanup = NULL]

\* Mutant: the effect returns early without touching the layer when a
\* condition fails.
SoilHeatmapLayer_effect_noHide(s) ==
    IF ~s.L \/ s.map = NULL \/ s.farm = NullObj \/ ~s.visible
    THEN s
    ELSE LET markers == s.created + 1
         IN  [s EXCEPT !.layers = @ \cup {<<s.map, markers>>},
                       !.markersRef = markers,
                       !.created = markers]

\* The body of the [L, map, farm, visible] effect.
SoilHeatmapLayer_effect(s) ==
    IF ~s.L \/ s.map = NULL \/ s.farm = NullObj \/ ~s.visible
    THEN IF s.markersRef # NoLayer /\ s.map # NULL
         THEN [s EXCEPT !.layers = @ \ {<<s.map, s.markersRef>>},
                        !.markersRef = NoLayer]
         ELSE s
    ELSE LET markers == s.created + 1
             removed == IF s.markersRef # NoLayer
                        THEN s.layers \ {<<s.map, s.markersRef>>}
                        ELSE s.layers
         IN  [s EXCEPT !.layers = removed \cup {<<s.map, markers>>},
                       !.markersRef = markers,
                       !.created = markers,
                       !.cleanup = s.map]

\* A render whose effect dependencies changed: cleanup, then the effect.
SoilHeatmapLayer_rerun(s) == SoilHeatmapLayer_effect(SoilHeatmapLayer_cleanup(s))

\* The layer groups attached to some map.
SoilHeatmapLayer_attached == {a[2] : a \in heatmapLayer.layers}

\* import("leaflet").then(leaflet => setL(leaflet.default))
SoilHeatmapLayer_leafletImported ==
    /\ mounted = "SoilHeatmapLayer"
    /\ heatmapLayer.importPending
    /\ heatmapLayer' = SoilHeatmapLayer_rerun(
                          [heatmapLayer EXCEPT !.L = TRUE, !.importPending = FALSE])
    /\ UNCHANGED mounted
    /\ Frame("SoilHeatmapLayer")

\* The parent renders with another map, farm or visible.
SoilHeatmapLayer_propsChange ==
    /\ mounted = "SoilHeatmapLayer"
    /\ heatmapLayer.created < MaxLayerGroups
    /\ \E m \in Maps \cup {NULL}, f \in {NullObj, ServerFarm("1"), ServerFarm("2")},
          v \in BOOLEAN :
          /\ <<m, f, v>> # <<heatmapLayer.map, heatmapLayer.farm, heatmapLayer.visible>>
          /\ heatmapLayer' = SoilHeatmapLayer_rerun(
                [heatmapLayer EXCEPT !.map = m, !.farm = f, !.visible = v])
    /\ UNCHANGED mounted
    /\ Frame("SoilHeatmapLayer")

SoilHeatmapLayer_unmount ==
    /\ mounted = "SoilHeatmapLayer"
    /\ mounted' = "none"
    /\ heatmapLayer' =
          [SoilHeatmapLayer_initial EXCEPT
              !.layers = SoilHeatmapLayer_cleanup(heatmapLayer).layers,
              !.created = heatmapLayer.created]
    /\ Frame("SoilHeatmapLayer")

----------------------------------------------------------------------------
(* FarmMarkers (components/FarmMarkers.tsx)                                 *)
(* group is the L.layerGroup the component creates: the map it was added to *)
(* and the markers in it (one per farm, named by the farm's id).  The group *)
(* outlives the component.                                                  *)

FarmMarkers_initial ==
    [map |-> NULL, farms |-> <<>>,
     markersLayerRef |-> NULL, cleanup |-> FALSE,
     group |-> [onMap |-> NULL, markers |-> <<>>]]

\* The cleanup the last effect run returned, if it returned one.
FarmMarkers_cleanup(s) ==
    IF s.cleanup
    THEN IF s.markersLayerRef # NULL
         THEN [s EXCEPT !.group.markers = <<>>, !.cleanup = FALSE]
         ELSE [s EXCEPT !.cleanup = FALSE]
    ELSE s

\* The body of the [map, farms, onFarmClick] effect.
FarmMarkers_effect(s) ==
    IF s.map = NULL THEN s
    ELSE LET t == IF s.markersLayerRef = NULL
                  THEN [s EXCEPT !.markersLayerRef = "group", !.group.onMap = s.map]
                  ELSE s
         IN  [t EXCEPT !.group.markers = [i \in 1..Len(s.farms) |-> s.farms[i].id],
                       !.cleanup = TRUE]

FarmMarkers_rerun(s) == FarmMarkers_effect(FarmMarkers_cleanup(s))

\* The parent renders with another map or farms.
FarmMarkers_propsChange ==
    /\ mounted = "FarmMarkers"
    /\ \E m \in Maps \cup {NULL}, fs \in ServerFarmLists :
          /\ <<m, fs>> # <<farmMarkers.map, farmMarkers.farms>>
          /\ farmMarkers' = FarmMarkers_rerun(
                [farmMarkers EXCEPT !.map = m, !.farms = fs])
    /\ UNCHANGED mounted
    /\ Frame("FarmMarkers")

FarmMarkers_unmount ==
    /\ mounted = "FarmMarkers"
    /\ mounted' = "none"
    /\ farmMarkers' =
          [FarmMarkers_initial EXCEPT !.group = FarmMarkers_cleanup(farmMarkers).group]
    /\ Frame("FarmMarkers")

----------------------------------------------------------------------------
(* MapController of the Google map container: its listeners                 *)
(* listeners counts the handles registered on the map per event; handles    *)
(* counts the addListener calls.  Both belong to the map and survive the    *)
(* component.                                                               *)

\* Most addListener calls one mount may make.
MaxListenerHandles == 9

\* center and zoom are the Google map's viewport, idlePending tells that the
\* map is moving and will fire idle, cause is what started that movement
\* ("user" or "flyTo"), and notifiedBy is the cause of the movement the
\* parent's onCenterChange/onZoomChange were last called for.
MapController_initial ==
    [map |-> NULL, initialized |-> FALSE, isUserInteraction |-> FALSE,
     cleanup |-> FALSE,
     listeners |-> [dragstart |-> 0, idle |-> 0, zoom_changed |-> 0],
     handles |-> 0,
     center |-> <<247136, 466753>>, zoom |-> 12, idlePending |-> FALSE,
     cause |-> "none", notifiedBy |-> "none"]

\* The cleanup the last effect run returned: three removeListener calls.
MapController_cleanup(s) ==
    IF s.cleanup
    THEN [s EXCEPT !.listeners.dragstart = @ - 1,
                   !.listeners.idle = @ - 1,
                   !.listeners.zoom_changed = @ - 1,
                   !.cleanup = FALSE]
    ELSE s

\* The body of the [map, onCenterChange, onZoomChange, onMapReady, zoom,
\* mapRef] effect.
MapController_effect(s) ==
    IF s.map = NULL THEN s
    ELSE [s EXCEPT !.initialized = TRUE,
                   !.listeners.dragstart = @ + 1,
                   !.listeners.idle = @ + 1,
                   !.listeners.zoom_changed = @ + 1,
                   !.handles = @ + 3,
                   !.cleanup = TRUE]

MapController_rerun(s) == MapController_effect(MapController_cleanup(s))

\* useMap() returns the loaded map.
MapController_mapLoads ==
    /\ mounted = "MapController"
    /\ mapController.map = NULL
    /\ mapController' = MapController_rerun([mapController EXCEPT !.map = "gmap"])
    /\ UNCHANGED mounted
    /\ Frame("MapController")

\* The parent renders with another zoom or other callbacks.
MapController_depsChange ==
    /\ mounted = "MapController"
    /\ mapController.handles < MaxListenerHandles
    /\ mapController' = MapController_rerun(mapController)
    /\ UNCHANGED mounted
    /\ Frame("MapController")

MapController_unmount ==
    /\ mounted = "MapController"
    /\ mounted' = "none"
    /\ mapController' =
          [MapController_initial EXCEPT
              !.listeners = MapController_cleanup(mapController).listeners,
              !.handles = mapController.handles]
    /\ Frame("MapController")

\* dragstart listener
MapController_dragstart(s) ==
    IF s.listeners.dragstart > 0 THEN [s EXCEPT !.isUserInteraction = TRUE] ELSE s

\* zoom_changed listener
MapController_zoom_changed(s) ==
    IF s.listeners.zoom_changed > 0 /\ ~s.isUserInteraction
    THEN [s EXCEPT !.isUserInteraction = TRUE] ELSE s

\* idle listener: onCenterChange, onZoomChange, flag reset.
MapController_idle(s) ==
    IF s.listeners.idle > 0 /\ s.isUserInteraction
    THEN [s EXCEPT !.notifiedBy = s.cause, !.isUserInteraction = FALSE]
    ELSE s

\* The user drags the Google map to c: dragstart is fired, idle will be.
MapController_userDrag ==
    /\ mounted = "MapController"
    /\ mapController.map # NULL /\ ~mapController.idlePending
    /\ \E c \in Centers \ {mapController.center} :
          mapController' = [MapController_dragstart(mapController) EXCEPT
                               !.center = c, !.idlePending = TRUE, !.cause = "user"]
    /\ UNCHANGED mounted
    /\ Frame("MapController")

\* The user zooms the Google map to z: zoom_changed is fired, idle will be.
MapController_userZoom ==
    /\ mounted = "MapController"
    /\ mapController.map # NULL /\ ~mapController.idlePending
    /\ \E z \in Zooms \ {mapController.zoom} :
          mapController' = [MapController_zoom_changed(mapController) EXCEPT
                               !.zoom = z, !.idlePending = TRUE, !.cause = "user"]
    /\ UNCHANGED mounted
    /\ Frame("MapController")

\* GoogleMapContainer.flyTo(newCenter, newZoom): panTo, then setZoom, which
\* fires zoom_changed when the zoom property changes.
GoogleMapContainer_flyTo ==
    /\ mounted = "MapController"
    /\ mapController.map # NULL /\ ~mapController.idlePending
    /\ \E c \in Centers, z \in Zooms :
          /\ <<c, z>> # <<mapController.center, mapController.zoom>>
          /\ mapController' =
                [(IF z # mapController.zoom
                  THEN MapController_zoom_changed(mapController)
                  ELSE mapController) EXCEPT
                    !.center = c, !.zoom = z, !.idlePending = TRUE, !.cause = "flyTo"]
    /\ UNCHANGED mounted
    /\ Frame("MapController")

\* The Google map has come to rest: idle is fired.
MapController_mapIdle ==
    /\ mounted = "MapController"
    /\ mapController.idlePending
    /\ mapController' = [MapController_idle(mapController) EXCEPT !.idlePending = FALSE]
    /\ UNCHANGED mounted
    /\ Frame("MapController")

----------------------------------------------------------------------------
(* The health badge of one farm, as the farms page (health-badge) and the   *)
(* dropdown (health-indicator) colour it from farm.healthScore.             *)

\* Health scores run from 0 to MaxScore.
MaxScore == 100

HealthBadge_initial == [score |-> 0, page |-> NULL, dropdown |-> NULL]

\* Both views render the farm: style={{ ... getHealthColor(farm.healthScore) }}
HealthBadge_render ==
    /\ healthBadge.page = NULL
    /\ healthBadge' = [healthBadge EXCEPT
                          !.page = FarmsPage_getHealthColor(healthBadge.score),
                          !.dropdown = FarmsDropdown_getHealthColor(healthBadge.score)]
    /\ UNCHANGED mounted
    /\ Frame("HealthBadge")

----------------------------------------------------------------------------
(* MapContainer (components/MapContainer.tsx), the prop-synced Leaflet map,  *)
(* under a parent that keeps the viewport in state and passes it back, as    *)
(* FarmPage does: center={mapCenter} zoom={mapZoom}                          *)
(* onCenterChange={setMapCenter} onZoomChange={setMapZoom}.                  *)
(* center and zoom are the parent's state, which the next render passes as  *)
(* props.  An array is compared by identity: centerFresh tells that the     *)
(* parent holds an array the [center] effect has not run with yet.  The     *)
(* Leaflet map is identified by the order of its creation; created, removed *)
(* and onMapReadyCalls belong to the page and survive the component.        *)

\* Most L.map instances created over the successive mounts of one page.
MaxMaps == 3

\* mapInstanceRef.current = null
NoMap == 0

MapContainer_initial ==
    [center |-> <<247136, 466753>>, zoom |-> 12, centerFresh |-> FALSE,
     zoomSeen |-> 12, mapInstanceRef |-> NoMap, cleanup |-> NoMap,
     mapCenter |-> <<247136, 466753>>, mapZoom |-> 12,
     created |-> 0, removed |-> {}, onMapReadyCalls |-> <<>>,
     commits |-> 0, userMoved |-> FALSE]

\* map.on("moveend"): onCenterChange([lat, lng]), the parent's setMapCenter
\* with a new array.
MapContainer_moveend(s) ==
    [s EXCEPT !.center = s.mapCenter, !.centerFresh = TRUE]

\* map.on("zoomend"): onZoomChange(map.getZoom()), the parent's setMapZoom.
MapContainer_zoomend(s) ==
    [s EXCEPT !.zoom = s.mapZoom]

\* Leaflet's map.setView(c, z): the view becomes (c, z); zoomend is fired
\* when the zoom changed, and moveend is fired in every case (also when the
\* view did not move: panBy of a zero offset fires moveend).
MapContainer_setView(s, c, z) ==
    LET t == [s EXCEPT !.mapCenter = c, !.mapZoom = z]
    IN  MapContainer_moveend(IF z # s.mapZoom THEN MapContainer_zoomend(t) ELSE t)

\* Mutant: the init effect without its guard.
MapContainer_initEffect_unguarded(s) ==
    [s EXCEPT !.created = @ + 1,
              !.mapInstanceRef = s.created + 1,
              !.cleanup = s.created + 1,
              !.mapCenter = s.center, !.mapZoom = s.zoom,
              !.onMapReadyCalls = Append(@, s.created + 1)]

\* The [] effect: returns when a map exists; else L.map(div, {center, zoom}),
\* the two handlers, mapInstanceRef.current = map, onMapReady(map), and the
\* cleanup closure over map.
MapContainer_initEffect(s) ==
    IF s.mapInstanceRef # NoMap THEN [s EXCEPT !.cleanup = NoMap]
    ELSE [s EXCEPT !.created = @ + 1,
                   !.mapInstanceRef = s.created + 1,
                   !.cleanup = s.created + 1,
                   !.mapCenter = s.center, !.mapZoom = s.zoom,
                   !.onMapReadyCalls = Append(@, s.created + 1)]

\* The cleanup the last run of the [] effect returned, if it returned one:
\* map.remove(); mapInstanceRef.current = null.
MapContainer_initCleanup(s) ==
    IF s.cleanup = NoMap THEN s
    ELSE [s EXCEPT !.removed = @ \cup {s.cleanup},
                   !.mapInstanceRef = NoMap, !.cleanup = NoMap]

\* The [center] effect of a render with prop center = c.
MapContainer_centerEffect(s, c) ==
    IF s.mapInstanceRef # NoMap THEN MapContainer_setView(s, c, s.mapZoom) ELSE s

\* The [zoom] effect of a render with prop zoom = z: map.setZoom(z), which
\* is setView(getCenter(), z).
MapContainer_zoomEffect(s, z) ==
    IF s.mapInstanceRef # NoMap THEN MapContainer_setView(s, s.mapCenter, z) ELSE s

\* getMap()
MapContainer_getMap == mapContainer.mapInstanceRef

\* The maps that exist: created and not removed.
MapContainer_liveMaps == (1..mapContainer.created) \ mapContainer.removed

\* Nothing is left to do: no effect is due and parent and map agree.
MapContainer_quiescent ==
    /\ ~mapContainer.centerFresh
    /\ mapContainer.zoom = mapContainer.zoomSeen
    /\ mapContainer.center = mapContainer.mapCenter
    /\ mapContainer.zoom = mapContainer.mapZoom

\* The user drags the map to c: Leaflet fires moveend when the drag ends.
MapContainer_userPan ==
    /\ mounted = "MapContainer"
    /\ mapContainer.mapInstanceRef # NoMap
    /\ \E c \in Centers \ {mapContainer.mapCenter} :
          mapContainer' = MapContainer_moveend(
              [mapContainer EXCEPT !.mapCenter = c, !.userMoved = TRUE])
    /\ UNCHANGED mounted
    /\ Frame("MapContainer")

\* The user zooms to z: Leaflet fires zoomend, then moveend.
MapContainer_userZoom ==
    /\ mounted = "MapContainer"
    /\ mapContainer.mapInstanceRef # NoMap
    /\ \E z \in Zooms \ {mapContainer.mapZoom} :
          mapContainer' = MapContainer_moveend(MapContainer_zoomend(
              [mapContainer EXCEPT !.mapZoom = z, !.userMoved = TRUE]))
    /\ UNCHANGED mounted
    /\ Frame("MapContainer")

\* The parent sets the centre itself (FarmPage: setMapCenter(farmData.coordinates)).
MapContainer_parentSetsCenter ==
    /\ mounted = "MapContainer"
    /\ \E c \in Centers \ {mapContainer.center} :
          mapContainer' = [mapContainer EXCEPT !.center = c, !.centerFresh = TRUE]
    /\ UNCHANGED mounted
    /\ Frame("MapContainer")

\* The parent renders with its new state and the effects whose dependency
\* changed run, [center] before [zoom].
MapContainer_render ==
    /\ mounted = "MapContainer"
    /\ mapContainer.centerFresh \/ mapContainer.zoom # mapContainer.zoomSeen
    /\ LET c == mapContainer.center
           z == mapContainer.zoom
           s0 == [mapContainer EXCEPT !.centerFresh = FALSE, !.zoomSeen = z,
                                      !.commits = (@ + 1) % 2]
           s1 == IF mapContainer.centerFresh
                 THEN MapContainer_centerEffect(s0, c) ELSE s0
           s2 == IF z # mapContainer.zoomSeen
                 THEN MapContainer_zoomEffect(s1, z) ELSE s1
       IN  mapContainer' = s2
    /\ UNCHANGED mounted
    /\ Frame("MapContainer")

\* The effects are run again on the mounted component (React StrictMode,
\* Fast Refresh): every cleanup, then every effect.
MapContainer_effectsRerun ==
    /\ mounted = "MapContainer"
    /\ mapContainer.created < MaxMaps
    /\ LET c == mapContainer.center
           z == mapContainer.zoom
           s0 == MapContainer_initEffect(MapContainer_initCleanup(mapContainer))
       IN  mapContainer' = MapContainer_zoomEffect(MapContainer_centerEffect(s0, c), z)
    /\ UNCHANGED mounted
    /\ Frame("MapContainer")

MapContainer_unmount ==
    /\ mounted = "MapContainer"
    /\ mounted' = "none"
    /\ LET s == MapContainer_initCleanup(mapContainer)
       IN  mapContainer' =
              [MapContainer_initial EXCEPT
                  !.mapInstanceRef = s.mapInstanceRef,
                  !.created = s.created, !.removed = s.removed,
                  !.onMapReadyCalls = s.onMapReadyCalls]
    /\ Frame("MapContainer")

----------------------------------------------------------------------------
(* MapContainer, the interaction-tracking Leaflet version                    *)
(* (isUserInteractionRef, initializedRef; no [center]/[zoom] effects).       *)
(* mapCenter and mapZoom are the Leaflet map's view.  pending holds the end  *)
(* events (moveend, zoomend) the movement in progress has still to fire,    *)
(* cause is what started that movement ("user" or "flyTo"), toldCenter and  *)
(* toldZoom are the last arguments of onCenterChange and onZoomChange, and  *)
(* notifiedBy is the cause of the movement they were last called for.       *)

MapContainerTracked_initial ==
    [mapInstanceRef |-> NoMap, initialized |-> FALSE, isUserInteraction |-> FALSE,
     cleanup |-> NoMap,
     mapCenter |-> <<247136, 466753>>, mapZoom |-> 12,
     pending |-> {}, cause |-> "none", zoomMoved |-> FALSE,
     toldCenter |-> <<247136, 466753>>, toldZoom |-> 12, notifiedBy |-> "none",
     created |-> 0, removed |-> {}, onMapReadyCalls |-> <<>>]

\* map.on("dragstart") and map.on("zoomstart")
MapContainerTracked_dragstart(s) == [s EXCEPT !.isUserInteraction = TRUE]
MapContainerTracked_zoomstart(s) == [s EXCEPT !.isUserInteraction = TRUE]

\* map.on("moveend")
MapContainerTracked_moveend(s) ==
    IF s.isUserInteraction
    THEN [s EXCEPT !.toldCenter = s.mapCenter, !.notifiedBy = s.cause]
    ELSE s

\* map.on("zoomend")
MapContainerTracked_zoomend(s) ==
    IF s.isUserInteraction
    THEN [s EXCEPT !.toldZoom = s.mapZoom, !.notifiedBy = s.cause,
                   !.isUserInteraction = FALSE]
    ELSE s

\* The [] effect: returns when initializedRef is set; else sets it, creates
\* the map, registers the four handlers, mapInstanceRef.current = map,
\* onMapReady(map), and returns the cleanup closure over map.
MapContainerTracked_initEffect(s) ==
    IF s.initialized THEN [s EXCEPT !.cleanup = NoMap]
    ELSE [s EXCEPT !.initialized = TRUE,
                   !.created = @ + 1,
                   !.mapInstanceRef = s.created + 1,
                   !.cleanup = s.created + 1,
                   !.onMapReadyCalls = Append(@, s.created + 1)]

\* The cleanup: map.remove(); mapInstanceRef.current = null;
\* initializedRef.current = false.
MapContainerTracked_initCleanup(s) ==
    IF s.cleanup = NoMap THEN s
    ELSE [s EXCEPT !.removed = @ \cup {s.cleanup},
                   !.mapInstanceRef = NoMap, !.initialized = FALSE,
                   !.cleanup = NoMap]

\* getMap()
MapContainerTracked_getMap == trackedMap.mapInstanceRef

\* The maps that exist: created and not removed.
MapContainerTracked_liveMaps == (1..trackedMap.created) \ trackedMap.removed

\* The user drags the map to c: Leaflet fires dragstart; moveend follows.
MapContainerTracked_userDrag ==
    /\ mounted = "MapContainerTracked"
    /\ trackedMap.mapInstanceRef # NoMap /\ trackedMap.pending = {}
    /\ \E c \in Centers \ {trackedMap.mapCenter} :
          trackedMap' = [MapContainerTracked_dragstart(trackedMap) EXCEPT
                            !.mapCenter = c, !.pending = {"moveend"},
                            !.cause = "user", !.zoomMoved = FALSE]
    /\ UNCHANGED mounted
    /\ Frame("MapContainerTracked")

\* The user zooms to z (wheel, pinch, double click), which may move the
\* centre as well: Leaflet fires zoomstart; zoomend and moveend follow.
MapContainerTracked_userZoom ==
    /\ mounted = "MapContainerTracked"
    /\ trackedMap.mapInstanceRef # NoMap /\ trackedMap.pending = {}
    /\ \E z \in Zooms \ {trackedMap.mapZoom}, c \in Centers :
          trackedMap' = [MapContainerTracked_zoomstart(trackedMap) EXCEPT
                            !.mapCenter = c, !.mapZoom = z,
                            !.pending = {"moveend", "zoomend"},
                            !.cause = "user", !.zoomMoved = TRUE]
    /\ UNCHANGED mounted
    /\ Frame("MapContainerTracked")

\* flyTo(center, zoom) of the ref handle: nothing without a map; else the
\* flag is cleared and Leaflet's map.flyTo starts, which fires zoomstart
\* at once and zoomend and moveend when the flight ends.
MapContainerTracked_flyTo ==
    /\ mounted = "MapContainerTracked"
    /\ trackedMap.pending = {}
    /\ \E c \in Centers, z \in Zooms :
          trackedMap' =
             IF trackedMap.mapInstanceRef = NoMap THEN trackedMap
             ELSE [MapContainerTracked_zoomstart(
                      [trackedMap EXCEPT !.isUserInteraction = FALSE]) EXCEPT
                      !.mapCenter = c, !.mapZoom = z,
                      !.pending = {"moveend", "zoomend"},
                      !.cause = "flyTo", !.zoomMoved = TRUE]
    /\ trackedMap' # trackedMap
    /\ UNCHANGED mounted
    /\ Frame("MapContainerTracked")

\* Leaflet delivers moveend.
MapContainerTracked_fireMoveend ==
    /\ mounted = "MapContainerTracked"
    /\ "moveend" \in trackedMap.pending
    /\ trackedMap' = [MapContainerTracked_moveend(trackedMap) EXCEPT
                         !.pending = @ \ {"moveend"}]
    /\ UNCHANGED mounted
    /\ Frame("MapContainerTracked")

\* Leaflet delivers zoomend.
MapContainerTracked_fireZoomend ==
    /\ mounted = "MapContainerTracked"
    /\ "zoomend" \in trackedMap.pending
    /\ trackedMap' = [MapContainerTracked_zoomend(trackedMap) EXCEPT
                         !.pending = @ \ {"zoomend"}]
    /\ UNCHANGED mounted
    /\ Frame("MapContainerTracked")

\* The effects are run again on the mounted component (React StrictMode,
\* Fast Refresh): the cleanup, then the effect.
MapContainerTracked_effectsRerun ==
    /\ mounted = "MapContainerTracked"
    /\ trackedMap.created < MaxMaps
    /\ trackedMap.pending = {}
    /\ trackedMap' = MapContainerTracked_initEffect(
                        MapContainerTracked_initCleanup(trackedMap))
    /\ UNCHANGED mounted
    /\ Frame("MapContainerTracked")

MapContainerTracked_unmount ==
    /\ mounted = "MapContainerTracked"
    /\ mounted' = "none"
    /\ LET s == MapContainerTracked_initCleanup(trackedMap)
       IN  trackedMap' =
              [MapContainerTracked_initial EXCEPT
                  !.mapInstanceRef = s.mapInstanceRef,
                  !.initialized = s.initialized,
                  !.created = s.created, !.removed = s.removed,
                  !.onMapReadyCalls = s.onMapReadyCalls]
    /\ Frame("MapContainerTracked")

----------------------------------------------------------------------------
(* SatelliteMap (components/SatelliteMap.tsx): the wrapper that loads the    *)
(* map component dynamically and forwards flyTo to it.  mapRef tells        *)
(* whether mapRef.current holds the inner component's handle: React         *)
(* attaches it when the inner component commits, before the inner           *)
(* component's effects (and so its onMapReady) run.  requests lists the     *)
(* flyTo calls made on the wrapper, each with whether the handle was there; *)
(* forwarded lists the calls made on the inner handle.                      *)

\* Most flyTo calls made on one mounted SatelliteMap.
MaxFlyTos == 3

\* Most onMapReady calls the inner component makes (one per map it creates).
MaxReadyCalls == 2

\* The targets a parent may fly to.
FlyTargets ==
    { [center |-> <<241483, 473050>>, zoom |-> 12],
      [center |-> <<275114, 416900>>, zoom |-> 13] }

SatelliteMap_initial ==
    [mapRef |-> FALSE, isReady |-> FALSE, pendingFlyToRef |-> NullObj,
     requests |-> <<>>, forwarded |-> <<>>, readyCalls |-> 0,
     onMapReadyCalls |-> 0]

\* Mutant: a stored flyTo is not replaced by a later one.
SatelliteMap_flyTo_keepsFirst(s, target) ==
    LET t == [s EXCEPT !.requests = Append(@, [target |-> target, available |-> s.mapRef])]
    IN  IF s.mapRef
        THEN [t EXCEPT !.forwarded = Append(@, target)]
        ELSE IF s.pendingFlyToRef = NullObj
             THEN [t EXCEPT !.pendingFlyToRef = target] ELSE t

\* flyTo(center, zoom) of the ref handle.
SatelliteMap_flyTo(s, target) ==
    LET t == [s EXCEPT !.requests = Append(@, [target |-> target, available |-> s.mapRef])]
    IN  IF s.mapRef
        THEN [t EXCEPT !.forwarded = Append(@, target)]
        ELSE [t EXCEPT !.pendingFlyToRef = target]

\* handleMapReady(map)
SatelliteMap_handleMapReady(s) ==
    LET t == [s EXCEPT !.isReady = TRUE, !.onMapReadyCalls = @ + 1,
                       !.readyCalls = @ + 1]
    IN  IF s.pendingFlyToRef # NullObj /\ s.mapRef
        THEN [t EXCEPT !.forwarded = Append(@, s.pendingFlyToRef),
                       !.pendingFlyToRef = NullObj]
        ELSE t

\* The parent calls ref.flyTo (FarmPage: mapRef.current?.flyTo(farm.coordinates, 12)).
SatelliteMap_parentFlyTo ==
    /\ mounted = "SatelliteMap"
    /\ Len(satelliteMap.requests) < MaxFlyTos
    /\ \E target \in FlyTargets :
          satelliteMap' = SatelliteMap_flyTo(satelliteMap, target)
    /\ UNCHANGED mounted
    /\ Frame("SatelliteMap")

\* The dynamic import has resolved and the inner map component commits: its
\* handle is attached to mapRef.
SatelliteMap_innerCommits ==
    /\ mounted = "SatelliteMap"
    /\ ~satelliteMap.mapRef
    /\ satelliteMap' = [satelliteMap EXCEPT !.mapRef = TRUE]
    /\ UNCHANGED mounted
    /\ Frame("SatelliteMap")

\* The inner component's init effect has created a map and calls onMapReady.
SatelliteMap_mapReady ==
    /\ mounted = "SatelliteMap"
    /\ satelliteMap.mapRef
    /\ satelliteMap.readyCalls < MaxReadyCalls
    /\ satelliteMap' = SatelliteMap_handleMapReady(satelliteMap)
    /\ UNCHANGED mounted
    /\ Frame("SatelliteMap")

SatelliteMap_unmount ==
    /\ mounted = "SatelliteMap"
    /\ mounted' = "none"
    /\ satelliteMap' = SatelliteMap_initial
    /\ Frame("SatelliteMap")

----------------------------------------------------------------------------
(* FarmMarkersLayer, the Google Maps version of the farm markers.            *)
(* An overlay is named by its kind, the effect run that created it and the  *)
(* position of its farm in farms.  onMap is the set of overlays whose map   *)
(* is set; it belongs to the map and survives the component.  infoWindows  *)
(* counts the InfoWindow objects the mounted component has created.         *)

\* Most runs of the marker effect on one mounted FarmMarkersLayer.
MaxMarkerRuns == 3

FarmMarkersLayer_initial ==
    [map |-> NULL, farms |-> <<>>, markersRef |-> <<>>, circlesRef |-> <<>>,
     infoWindowRef |-> FALSE, cleanup |-> FALSE,
     onMap |-> {}, infoWindows |-> 0, runs |-> 0]

\* The overlays a list of refs holds.
FarmMarkersLayer_range(refs) == {refs[i] : i \in 1..Len(refs)}

\* The cleanup the last effect run returned, if it returned one: setMap(null)
\* on every marker and circle in the refs, infoWindow.close().
FarmMarkersLayer_cleanup(s) ==
    IF s.cleanup
    THEN [s EXCEPT !.onMap = @ \ (FarmMarkersLayer_range(s.markersRef)
                                    \cup FarmMarkersLayer_range(s.circlesRef)),
                   !.cleanup = FALSE]
    ELSE s

\* Mutant: every run creates its own InfoWindow.
FarmMarkersLayer_effect_newInfoWindow(s) ==
    IF s.map = NULL THEN s
    ELSE LET run == s.runs + 1
             circles == [i \in 1..Len(s.farms) |->
                            [kind |-> "circle", run |-> run, farm |-> i]]
             markers == [i \in 1..Len(s.farms) |->
                            [kind |-> "marker", run |-> run, farm |-> i]]
         IN  [s EXCEPT !.onMap = (@ \ (FarmMarkersLayer_range(s.markersRef)
                                         \cup FarmMarkersLayer_range(s.circlesRef)))
                                  \cup FarmMarkersLayer_range(circles)
                                  \cup FarmMarkersLayer_range(markers),
                       !.markersRef = markers,
                       !.circlesRef = circles,
                       !.infoWindowRef = TRUE,
                       !.infoWindows = @ + 1,
                       !.runs = run,
                       !.cleanup = TRUE]

\* The body of the [map, farms, onFarmClick] effect.
FarmMarkersLayer_effect(s) ==
    IF s.map = NULL THEN s
    ELSE LET run == s.runs + 1
             circles == [i \in 1..Len(s.farms) |->
                            [kind |-> "circle", run |-> run, farm |-> i]]
             markers == [i \in 1..Len(s.farms) |->
                            [kind |-> "marker", run |-> run, farm |-> i]]
         IN  [s EXCEPT !.onMap = (@ \ (FarmMarkersLayer_range(s.markersRef)
                                         \cup FarmMarkersLayer_range(s.circlesRef)))
                                  \cup FarmMarkersLayer_range(circles)
                                  \cup FarmMarkersLayer_range(markers),
                       !.markersRef = markers,
                       !.circlesRef = circles,
                       !.infoWindowRef = TRUE,
                       !.infoWindows = IF s.infoWindowRef THEN @ ELSE @ + 1,
                       !.runs = run,
                       !.cleanup = TRUE]

FarmMarkersLayer_rerun(s) == FarmMarkersLayer_effect(FarmMarkersLayer_cleanup(s))

\* The overlays of one kind that are on the map.
FarmMarkersLayer_onMap(kind) == {o \in farmMarkersLayer.onMap : o.kind = kind}

\* useMap() returns the loaded map.
FarmMarkersLayer_mapLoads ==
    /\ mounted = "FarmMarkersLayer"
    /\ farmMarkersLayer.map = NULL
    /\ farmMarkersLayer' = FarmMarkersLayer_rerun(
                              [farmMarkersLayer EXCEPT !.map = "gmap"])
    /\ UNCHANGED mounted
    /\ Frame("FarmMarkersLayer")

\* The parent renders with another farms list.
FarmMarkersLayer_farmsChange ==
    /\ mounted = "FarmMarkersLayer"
    /\ farmMarkersLayer.runs < MaxMarkerRuns
    /\ \E fs \in ServerFarmLists \ {farmMarkersLayer.farms} :
          farmMarkersLayer' = FarmMarkersLayer_rerun(
                                 [farmMarkersLayer EXCEPT !.farms = fs])
    /\ UNCHANGED mounted
    /\ Frame("FarmMarkersLayer")

FarmMarkersLayer_unmount ==
    /\ mounted = "FarmMarkersLayer"
    /\ mounted' = "none"
    /\ farmMarkersLayer' =
          [FarmMarkersLayer_initial EXCEPT
              !.onMap = FarmMarkersLayer_cleanup(farmMarkersLayer).onMap]
    /\ Frame("FarmMarkersLayer")

----------------------------------------------------------------------------
(* ChatButton (components/ChatButton.tsx)                                    *)
(* messages lists the chat messages by role and content.  pending lists the *)
(* handleSend calls that wait on their timer, each with the user message    *)
(* and the farm its closure holds.                                          *)

\* Most messages one mounted chat may hold.
MaxMessages == 5

\* What the user may have typed into the input; two of them are blank.
ChatInputs == {"", "  ", " water ", "soil"}

\* String.prototype.trim on the inputs above.
Trim(v) ==
    CASE v = "  " -> ""
      [] v = " water " -> "water"
      [] OTHER -> v

\* The farms a parent may pass as the farm prop (or null).
ChatFarms == {FARMS_DATA[1], ServerFarm("2")}

ChatButton_initial ==
    [farm |-> NullObj, isOpen |-> FALSE, messages |-> <<>>, inputValue |-> "",
     isLoading |-> FALSE, pending |-> <<>>]

\* generateResponse(userMessage, farm): the branch taken, with the farm
\* the text is about.
ChatButton_generateResponse(userMessage, farm) ==
    IF userMessage = "water"
    THEN [role |-> "assistant", content |-> "irrigation", farm |-> farm.id]
    ELSE [role |-> "assistant", content |-> "details", farm |-> farm.id]

\* The [isOpen, farm] effect: the greeting, when the chat is opened empty.
ChatButton_greetingEffect(s) ==
    IF s.isOpen /\ s.farm # NullObj /\ Len(s.messages) = 0
    THEN [s EXCEPT !.messages =
             << [role |-> "assistant", content |-> "welcome", farm |-> s.farm.id] >>]
    ELSE s

\* handleSend up to the await.
ChatButton_handleSend(s) ==
    IF Trim(s.inputValue) = "" \/ s.farm = NullObj THEN s
    ELSE LET userMessage == [role |-> "user", content |-> Trim(s.inputValue),
                             farm |-> s.farm.id]
         IN  [s EXCEPT !.messages = Append(@, userMessage),
                       !.inputValue = "",
                       !.isLoading = TRUE,
                       !.pending = Append(@, [content |-> userMessage.content,
                                              farm |-> s.farm])]

\* Mutant: the reply is appended and isLoading is left true.
ChatButton_handleSend_resume_keepsLoading(s) ==
    LET p == Head(s.pending)
    IN  [s EXCEPT !.messages = Append(@, ChatButton_generateResponse(p.content, p.farm)),
                  !.pending = Tail(@)]

\* handleSend after the await, for the oldest pending call.
ChatButton_handleSend_resume(s) ==
    LET p == Head(s.pending)
    IN  [s EXCEPT !.messages = Append(@, ChatButton_generateResponse(p.content, p.farm)),
                  !.isLoading = FALSE,
                  !.pending = Tail(@)]

\* The chat window is rendered: farm is non-null and isOpen.
ChatButton_windowShown == chatButton.farm # NullObj /\ chatButton.isOpen

\* The messages of one role.
ChatButton_messagesOf(role) ==
    SelectSeq(chatButton.messages, LAMBDA m : m.role = role)

\* onClick of the chat button: setIsOpen(!isOpen), then the effects.
ChatButton_clickButton ==
    /\ mounted = "ChatButton"
    /\ chatButton.farm # NullObj
    /\ chatButton' = ChatButton_greetingEffect(
                        [chatButton EXCEPT !.isOpen = ~chatButton.isOpen])
    /\ UNCHANGED mounted
    /\ Frame("ChatButton")

\* onClick of the minimize button.
ChatButton_clickMinimize ==
    /\ mounted = "ChatButton"
    /\ ChatButton_windowShown
    /\ chatButton' = [chatButton EXCEPT !.isOpen = FALSE]
    /\ UNCHANGED mounted
    /\ Frame("ChatButton")

\* onChange of the input, which is disabled while isLoading.
ChatButton_type ==
    /\ mounted = "ChatButton"
    /\ ChatButton_windowShown /\ ~chatButton.isLoading
    /\ \E v \in ChatInputs \ {chatButton.inputValue} :
          chatButton' = [chatButton EXCEPT !.inputValue = v]
    /\ UNCHANGED mounted
    /\ Frame("ChatButton")

\* onClick of the send button, which is disabled for a blank input and
\* while isLoading.
ChatButton_clickSend ==
    /\ mounted = "ChatButton"
    /\ ChatButton_windowShown
    /\ Trim(chatButton.inputValue) # "" /\ ~chatButton.isLoading
    /\ Len(chatButton.messages) + 2 <= MaxMessages
    /\ chatButton' = ChatButton_handleSend(chatButton)
    /\ UNCHANGED mounted
    /\ Frame("ChatButton")

\* Enter in the input (handleKeyPress), which is disabled while isLoading.
\* With a blank input handleSend returns at once.
ChatButton_pressEnter ==
    /\ mounted = "ChatButton"
    /\ ChatButton_windowShown /\ ~chatButton.isLoading
    /\ Len(chatButton.messages) + 2 <= MaxMessages
    /\ chatButton' = ChatButton_handleSend(chatButton)
    /\ UNCHANGED mounted
    /\ Frame("ChatButton")

\* The timer of a pending handleSend fires and the call resumes.
ChatButton_timerFires ==
    /\ mounted = "ChatButton"
    /\ chatButton.pending # <<>>
    /\ chatButton' = ChatButton_handleSend_resume(chatButton)
    /\ UNCHANGED mounted
    /\ Frame("ChatButton")

\* The parent passes another farm, or null: the [isOpen, farm] effect runs.
ChatButton_farmChanges ==
    /\ mounted = "ChatButton"
    /\ \E f \in (ChatFarms \cup {NullObj}) \ {chatButton.farm} :
          chatButton' = ChatButton_greetingEffect([chatButton EXCEPT !.farm = f])
    /\ UNCHANGED mounted
    /\ Frame("ChatButton")

\* Unmount discards the state; a timer that fires later changes nothing.
ChatButton_unmount ==
    /\ mounted = "ChatButton"
    /\ mounted' = "none"
    /\ chatButton' = ChatButton_initial
    /\ Frame("ChatButton")

----------------------------------------------------------------------------
(* MetricsSidebar (components/MetricsSidebar.tsx) and SoilDashboard         *)
(* (components/SoilDashboard.tsx)                                           *)
(* trail is a history of the view: the last two clicks, each with the       *)
(* expanded item before it.                                                 *)

\* The ids of the sidebar's sections.
MetricsSidebar_sections ==
    {"moisture", "temperature", "nutrients", "ph", "organic", "conductivity", "texture"}

\* The ids getSoilProperties gives the dashboard's cards.
SoilDashboard_soilProperties ==
    {"moisture", "temperature", "ph", "nitrogen", "phosphorus", "potassium",
     "organic", "ec"}

\* The last two entries of a trail after one more click.
Trail(trail, before, id) ==
    LET t == Append(trail, [before |-> before, id |-> id])
    IN  IF Len(t) > 2 THEN Tail(t) ELSE t

MetricsSidebar_initial == [expandedSection |-> NULL, trail |-> <<>>]

\* Mutant: the icon always expands its section.
MetricsSidebar_icon_onClick_expands(s, id) ==
    [s EXCEPT !.expandedSection = id]

\* onClick of a section's icon.
MetricsSidebar_icon_onClick(s, id) ==
    [s EXCEPT !.expandedSection = IF s.expandedSection = id THEN NULL ELSE id]

\* onClick of the panel's close button.
MetricsSidebar_close_onClick(s) ==
    [s EXCEPT !.expandedSection = NULL]

\* The icons drawn active; the panel shows the section of the same id.
MetricsSidebar_activeIcons ==
    {id \in MetricsSidebar_sections : metricsSidebar.expandedSection = id}

MetricsSidebar_clickIcon ==
    /\ mounted = "MetricsSidebar"
    /\ \E id \in MetricsSidebar_sections :
          metricsSidebar' =
             [MetricsSidebar_icon_onClick(metricsSidebar, id) EXCEPT
                 !.trail = Trail(@, metricsSidebar.expandedSection, id)]
    /\ UNCHANGED mounted
    /\ Frame("MetricsSidebar")

\* The close button is rendered with the expanded panel only.
MetricsSidebar_clickClose ==
    /\ mounted = "MetricsSidebar"
    /\ Truthy(metricsSidebar.expandedSection)
    /\ metricsSidebar' =
          [MetricsSidebar_close_onClick(metricsSidebar) EXCEPT
              !.trail = Trail(@, metricsSidebar.expandedSection, "close-btn")]
    /\ UNCHANGED mounted
    /\ Frame("MetricsSidebar")

MetricsSidebar_unmount ==
    /\ mounted = "MetricsSidebar"
    /\ mounted' = "none"
    /\ metricsSidebar' = MetricsSidebar_initial
    /\ Frame("MetricsSidebar")

SoilDashboard_initial == [isOpen |-> FALSE, expandedProperty |-> NULL, trail |-> <<>>]

\* onClick of a property card.
SoilDashboard_card_onClick(s, id) ==
    [s EXCEPT !.expandedProperty = IF s.expandedProperty = id THEN NULL ELSE id]

\* The cards drawn expanded, with their details.
SoilDashboard_expandedCards ==
    IF soilDashboard.isOpen
    THEN {id \in SoilDashboard_soilProperties : soilDashboard.expandedProperty = id}
    ELSE {}

\* The cards are rendered while isOpen.
SoilDashboard_clickCard ==
    /\ mounted = "SoilDashboard"
    /\ soilDashboard.isOpen
    /\ \E id \in SoilDashboard_soilProperties :
          soilDashboard' =
             [SoilDashboard_card_onClick(soilDashboard, id) EXCEPT
                 !.trail = Trail(@, soilDashboard.expandedProperty, id)]
    /\ UNCHANGED mounted
    /\ Frame("SoilDashboard")

\* The parent changes the isOpen prop (after onClose, or to open the
\* dashboard); the component keeps its state.
SoilDashboard_parentSetsIsOpen ==
    /\ mounted = "SoilDashboard"
    /\ soilDashboard' = [soilDashboard EXCEPT !.isOpen = ~soilDashboard.isOpen]
    /\ UNCHANGED mounted
    /\ Frame("SoilDashboard")

SoilDashboard_unmount ==
    /\ mounted = "SoilDashboard"
    /\ mounted' = "none"
    /\ soilDashboard' = SoilDashboard_initial
    /\ Frame("SoilDashboard")

----------------------------------------------------------------------------
(* Mounting.  A mount is a fresh page load: the first render with the       *)
(* useState initial values, then the mount effects.  No other view is       *)
(* mounted, and what an earlier view left behind on its maps is gone with   *)
(* that page.                                                               *)

MountFrame(view) ==
    /\ IF view = "FarmsPage" THEN TRUE ELSE farmsPage' = FarmsPage_initial
    /\ IF view = "FarmsDropdown" THEN TRUE ELSE farmsDropdown' = FarmsDropdown_initial
    /\ IF view = "FarmPage" THEN TRUE ELSE farmPage' = FarmPage_initial
    /\ IF view = "HomeMap" THEN TRUE ELSE homeMap' = HomeMap_initial
    /\ IF view = "SoilPointsMap" THEN TRUE ELSE soilPointsMap' = SoilPointsMap_initial
    /\ IF view = "RegionMap" THEN TRUE ELSE regionMap' = RegionMap_initial
    /\ IF view = "SoilHeatmapLayer" THEN TRUE ELSE heatmapLayer' = SoilHeatmapLayer_initial
    /\ IF view = "FarmMarkers" THEN TRUE ELSE farmMarkers' = FarmMarkers_initial
    /\ IF view = "MapController" THEN TRUE ELSE mapController' = MapController_initial
    /\ IF view = "MapContainer" THEN TRUE ELSE mapContainer' = MapContainer_initial
    /\ IF view = "MapContainerTracked" THEN TRUE ELSE trackedMap' = MapContainerTracked_initial
    /\ IF view = "SatelliteMap" THEN TRUE ELSE satelliteMap' = SatelliteMap_initial
    /\ IF view = "FarmMarkersLayer" THEN TRUE ELSE farmMarkersLayer' = FarmMarkersLayer_initial
    /\ IF view = "ChatButton" THEN TRUE ELSE chatButton' = ChatButton_initial
    /\ IF view = "MetricsSidebar" THEN TRUE ELSE metricsSidebar' = MetricsSidebar_initial
    /\ IF view = "SoilDashboard" THEN TRUE ELSE soilDashboard' = SoilDashboard_initial
    /\ UNCHANGED healthBadge

FarmsPage_mount ==
    /\ mounted = "none"
    /\ mounted' = "FarmsPage"
    /\ farmsPage' = FarmsPage_fetchFarms(FarmsPage_initial)
    /\ MountFrame("FarmsPage")

FarmsDropdown_mount ==
    /\ mounted = "none"
    /\ mounted' = "FarmsDropdown"
    /\ farmsDropdown' = FarmsDropdown_fetchFarms(FarmsDropdown_initial)
    /\ MountFrame("FarmsDropdown")

FarmPage_mount ==
    /\ mounted = "none"
    /\ mounted' = "FarmPage"
    /\ \E id \in RouteFarmIds :
          farmPage' = FarmPage_fetchFarm([FarmPage_initial EXCEPT !.farmId = id])
    /\ MountFrame("FarmPage")

HomeMap_mount ==
    /\ mounted = "none"
    /\ mounted' = "HomeMap"
    /\ homeMap' = HomeMap_fetchFarms(HomeMap_initial)
    /\ MountFrame("HomeMap")

SoilPointsMap_mount ==
    /\ mounted = "none"
    /\ mounted' = "SoilPointsMap"
    /\ soilPointsMap' = SoilPointsMap_fetchSoilData(SoilPointsMap_initial)
    /\ MountFrame("SoilPointsMap")

RegionMap_mount ==
    /\ mounted = "none"
    /\ mounted' = "RegionMap"
    /\ regionMap' = RegionMap_initial
    /\ MountFrame("RegionMap")

SoilHeatmapLayer_mount ==
    /\ mounted = "none"
    /\ mounted' = "SoilHeatmapLayer"
    /\ \E m \in Maps \cup {NULL}, f \in {NullObj, ServerFarm("1")}, v \in BOOLEAN :
          heatmapLayer' = SoilHeatmapLayer_effect(
              [SoilHeatmapLayer_initial EXCEPT !.map = m, !.farm = f, !.visible = v,
                                               !.importPending = TRUE])
    /\ MountFrame("SoilHeatmapLayer")

FarmMarkers_mount ==
    /\ mounted = "none"
    /\ mounted' = "FarmMarkers"
    /\ \E m \in Maps \cup {NULL}, fs \in ServerFarmLists :
          farmMarkers' = FarmMarkers_effect(
              [FarmMarkers_initial EXCEPT !.map = m, !.farms = fs])
    /\ MountFrame("FarmMarkers")

\* First render: useMap() has no map yet.
MapController_mount ==
    /\ mounted = "none"
    /\ mounted' = "MapController"
    /\ mapController' = MapController_effect(MapController_initial)
    /\ MountFrame("MapController")

\* First render with the parent's initial viewport, then the three effects.
MapContainer_mount ==
    /\ mounted = "none"
    /\ mapContainer.created < MaxMaps
    /\ mounted' = "MapContainer"
    /\ LET p == [MapContainer_initial EXCEPT
                    !.created = mapContainer.created,
                    !.removed = mapContainer.removed,
                    !.onMapReadyCalls = mapContainer.onMapReadyCalls]
           s0 == MapContainer_initEffect(p)
       IN  mapContainer' = MapContainer_zoomEffect(
                              MapContainer_centerEffect(s0, p.center), p.zoom)
    /\ MountFrame("MapContainer")

MapContainerTracked_mount ==
    /\ mounted = "none"
    /\ trackedMap.created < MaxMaps
    /\ mounted' = "MapContainerTracked"
    /\ trackedMap' = MapContainerTracked_initEffect(
          [MapContainerTracked_initial EXCEPT
              !.initialized = trackedMap.initialized,
              !.created = trackedMap.created,
              !.removed = trackedMap.removed,
              !.onMapReadyCalls = trackedMap.onMapReadyCalls])
    /\ MountFrame("MapContainerTracked")

\* First render: the dynamic import is loading and the placeholder is shown.
SatelliteMap_mount ==
    /\ mounted = "none"
    /\ mounted' = "SatelliteMap"
    /\ satelliteMap' = SatelliteMap_initial
    /\ MountFrame("SatelliteMap")

\* First render: useMap() has no map yet.
FarmMarkersLayer_mount ==
    /\ mounted = "none"
    /\ mounted' = "FarmMarkersLayer"
    /\ \E fs \in ServerFarmLists :
          farmMarkersLayer' = FarmMarkersLayer_effect(
              [FarmMarkersLayer_initial EXCEPT !.farms = fs])
    /\ MountFrame("FarmMarkersLayer")

\* First render with the farm the parent passes; the chat is closed.
ChatButton_mount ==
    /\ mounted = "none"
    /\ mounted' = "ChatButton"
    /\ \E f \in ChatFarms \cup {NullObj} :
          chatButton' = ChatButton_greetingEffect([ChatButton_initial EXCEPT !.farm = f])
    /\ MountFrame("ChatButton")

MetricsSidebar_mount ==
    /\ mounted = "none"
    /\ mounted' = "MetricsSidebar"
    /\ metricsSidebar' = MetricsSidebar_initial
    /\ MountFrame("MetricsSidebar")

\* First render with the isOpen the parent passes.
SoilDashboard_mount ==
    /\ mounted = "none"
    /\ mounted' = "SoilDashboard"
    /\ \E open \in BOOLEAN :
          soilDashboard' = [SoilDashboard_initial EXCEPT !.isOpen = open]
    /\ MountFrame("SoilDashboard")

----------------------------------------------------------------------------
Init ==
    /\ mounted = "none"
    /\ farmsPage = FarmsPage_initial
    /\ farmsDropdown = FarmsDropdown_initial
    /\ farmPage = FarmPage_initial
    /\ homeMap = HomeMap_initial
    /\ soilPointsMap = SoilPointsMap_initial
    /\ regionMap = RegionMap_initial
    /\ heatmapLayer = SoilHeatmapLayer_initial
    /\ farmMarkers = FarmMarkers_initial
    /\ mapController = MapController_initial
    /\ mapContainer = MapContainer_initial
    /\ trackedMap = MapContainerTracked_initial
    /\ satelliteMap = SatelliteMap_initial
    /\ farmMarkersLayer = FarmMarkersLayer_initial
    /\ chatButton = ChatButton_initial
    /\ metricsSidebar = MetricsSidebar_initial
    /\ soilDashboard = SoilDashboard_initial
    /\ healthBadge = HealthBadge_initial

Next ==
    \/ FarmsPage_mount
    \/ FarmsPage_getFarmsResolves
    \/ FarmsPage_getFarmsRejects
    \/ FarmsPage_unmount
    \/ FarmsDropdown_mount
    \/ FarmsDropdown_getFarmsResolves
    \/ FarmsDropdown_getFarmsRejects
    \/ FarmsDropdown_clickTrigger
    \/ FarmsDropdown_clickItem
    \/ FarmsDropdown_clickOutside
    \/ FarmsDropdown_unmount
    \/ FarmPage_mount
    \/ FarmPage_farmIdChanges
    \/ FarmPage_getFarmResolves
    \/ FarmPage_getFarmRejects
    \/ FarmPage_unmount
    \/ HomeMap_mount
    \/ HomeMap_getFarmsResolves
    \/ HomeMap_getFarmsRejects
    \/ HomeMap_unmount
    \/ SoilPointsMap_mount
    \/ SoilPointsMap_samplesResolve
    \/ SoilPointsMap_samplesFail
    \/ \E point \in SamplePoints : SoilPointsMap_clickPoint(point)
    \/ SoilPointsMap_mouseEnter
    \/ SoilPointsMap_mouseLeave
    \/ SoilPointsMap_clickClose
    \/ SoilPointsMap_clickReset
    \/ SoilPointsMap_unmount
    \/ RegionMap_mount
    \/ \E r \in RegionIds : RegionMap_clickRegion(r)
    \/ RegionMap_mouseEnter
    \/ RegionMap_mouseLeave
    \/ RegionMap_svgMouseLeave
    \/ RegionMap_clickReset
    \/ RegionMap_unmount
    \/ SoilHeatmapLayer_mount
    \/ SoilHeatmapLayer_leafletImported
    \/ SoilHeatmapLayer_propsChange
    \/ SoilHeatmapLayer_unmount
    \/ FarmMarkers_mount
    \/ FarmMarkers_propsChange
    \/ FarmMarkers_unmount
    \/ MapController_mount
    \/ MapController_mapLoads
    \/ MapController_depsChange
    \/ MapController_unmount
    \/ MapController_userDrag
    \/ MapController_userZoom
    \/ GoogleMapContainer_flyTo
    \/ MapController_mapIdle
    \/ MapContainer_mount
    \/ MapContainer_userPan
    \/ MapContainer_userZoom
    \/ MapContainer_parentSetsCenter
    \/ MapContainer_render
    \/ MapContainer_effectsRerun
    \/ MapContainer_unmount
    \/ MapContainerTracked_mount
    \/ MapContainerTracked_userDrag
    \/ MapContainerTracked_userZoom
    \/ MapContainerTracked_flyTo
    \/ MapContainerTracked_fireMoveend
    \/ MapContainerTracked_fireZoomend
    \/ MapContainerTracked_effectsRerun
    \/ MapContainerTracked_unmount
    \/ SatelliteMap_mount
    \/ SatelliteMap_parentFlyTo
    \/ SatelliteMap_innerCommits
    \/ SatelliteMap_mapReady
    \/ SatelliteMap_unmount
    \/ FarmMarkersLayer_mount
    \/ FarmMarkersLayer_mapLoads
    \/ FarmMarkersLayer_farmsChange
    \/ FarmMarkersLayer_unmount
    \/ ChatButton_mount
    \/ ChatButton_clickButton
    \/ ChatButton_clickMinimize
    \/ ChatButton_type
    \/ ChatButton_clickSend
    \/ ChatButton_pressEnter
    \/ ChatButton_timerFires
    \/ ChatButton_farmChanges
    \/ ChatButton_unmount
    \/ MetricsSidebar_mount
    \/ MetricsSidebar_clickIcon
    \/ MetricsSidebar_clickClose
    \/ MetricsSidebar_unmount
    \/ SoilDashboard_mount
    \/ SoilDashboard_clickCard
    \/ SoilDashboard_parentSetsIsOpen
    \/ SoilDashboard_unmount

Spec == Init /\ [][Next]_vars

\* The health colouring alone, for every score a farm may carry.
InitHealth ==
    /\ mounted = "none"
    /\ farmsPage = FarmsPage_initial
    /\ farmsDropdown = FarmsDropdown_initial
    /\ farmPage = FarmPage_initial
    /\ homeMap = HomeMap_initial
    /\ soilPointsMap = SoilPointsMap_initial
    /\ regionMap = RegionMap_initial
    /\ heatmapLayer = SoilHeatmapLayer_initial
    /\ farmMarkers = FarmMarkers_initial
    /\ mapController = MapController_initial
    /\ mapContainer = MapContainer_initial
    /\ trackedMap = MapContainerTracked_initial
    /\ satelliteMap = SatelliteMap_initial
    /\ farmMarkersLayer = FarmMarkersLayer_initial
    /\ chatButton = ChatButton_initial
    /\ metricsSidebar = MetricsSidebar_initial
    /\ soilDashboard = SoilDashboard_initial
    /\ \E score \in 0..MaxScore : healthBadge = [HealthBadge_initial EXCEPT !.score = score]

NextHealth == HealthBadge_render

SpecHealth == InitHealth /\ [][NextHealth]_vars

----------------------------------------------------------------------------
(* Claims                                                                   *)

Settled == {"fulfilled", "rejected"}

\* C1: whenever api.getFarms of the farms page has rejected, loading is
\* false, error is a (non-null) message, farms is FARMS_DATA, and the error
\* banner and the fallback cards are rendered together.
C1_FarmsPageFallback ==
    (mounted = "FarmsPage" /\ farmsPage.request = "rejected") =>
        /\ farmsPage.loading = FALSE
        /\ farmsPage.error # NULL
        /\ farmsPage.error \in {ErrorMessage(e, "Failed to load farms") : e \in Rejections}
        /\ farmsPage.farms = FARMS_DATA
        /\ FarmsPage_showsBanner
        /\ FarmsPage_cards = FARMS_DATA

C1_Witness == mounted = "FarmsPage" /\ farmsPage.request = "rejected"

\* C2 (as claimed): a step in which api.getFarm of the current farmId
\* rejects, every earlier request having settled before farmId took its
\* current value (the page is still loading), ends with loading false and
\* error set; with a FARMS_DATA entry
\* for farmId the page shows that entry and mapCenter is its coordinates,
\* otherwise farm is null and the page shows "Farm not found".
C2_FarmPageRejectShowsFallbackOrNotFound ==
    [][ \A err \in Rejections :
          LET i == Len(farmPage.requests) IN
          ( /\ mounted = "FarmPage" /\ mounted' = mounted
            /\ i > 0
            /\ farmPage.requests[i].state = "pending"
            /\ farmPage.loading
            /\ \A j \in 1..(i - 1) : farmPage.requests[j].state # "pending"
            /\ farmPage' = FarmPage_fetchFarm_catch(farmPage, i, err) )
          => /\ farmPage'.loading = FALSE
             /\ farmPage'.error # NULL
             /\ IF FARMS_DATA_find(farmPage.farmId) # NullObj
                THEN /\ farmPage'.farm = FARMS_DATA_find(farmPage.farmId)
                     /\ farmPage'.mapCenter = FARMS_DATA_find(farmPage.farmId).coordinates
                     /\ FarmPage_view' = "farm"
                ELSE /\ farmPage'.farm = NullObj
                     /\ FarmPage_view' = "not-found" ]_vars

\* C3 (as claimed): once api.getFarms of the dropdown has rejected, farms is
\* FARMS_DATA and the open dropdown, not loading, lists the FARMS_DATA farms
\* together with the error.
C3_DropdownListsFallbackWithError ==
    (mounted = "FarmsDropdown" /\ farmsDropdown.request = "rejected") =>
        /\ farmsDropdown.farms = FARMS_DATA
        /\ (farmsDropdown.isOpen /\ ~farmsDropdown.loading) =>
              /\ FarmsDropdown_items = FARMS_DATA
              /\ FarmsDropdown_showsError

C5_ClickUpdatesPanelAndMetrics ==
    [][ \A r \in RegionIds :
          RegionMap_clickRegion(r) =>
             /\ regionMap'.selectedRegion = r
             /\ RegionMap_panel'.name = STATE_META(r).name
             /\ RegionMap_panel'.stateAbbr = STATE_META(r).abbr
             /\ RegionMap_panel'.region = STATE_META(r).region
             /\ (r # regionMap.selectedRegion =>
                    RegionMap_panel'.metrics # RegionMap_panel.metrics) ]_vars

\* C6: a click on a point that is not selected selects it and shows the
\* details panel for exactly that point; a click on the selected point, the
\* close button and Reset hide the panel; at every moment at most one circle
\* is selected and the panel is visible iff one is.
C6_SelectionToggle ==
    /\ [][ /\ \A point \in SamplePoints :
                SoilPointsMap_clickPoint(point) =>
                   IF /\ soilPointsMap.selectedPoint # NullObj
                      /\ soilPointsMap.selectedPoint.id = point.id
                   THEN ~SoilPointsMap_panelVisible'
                   ELSE /\ soilPointsMap'.selectedPoint = point
                        /\ SoilPointsMap_panelVisible'
                        /\ SoilPointsMap_panelSampleId' = point.id
           /\ (SoilPointsMap_clickClose \/ SoilPointsMap_clickReset) =>
                 ~SoilPointsMap_panelVisible' ]_vars
    /\ [] ( /\ Cardinality(SoilPointsMap_selectedCircles) <= 1
            /\ SoilPointsMap_panelVisible <=> SoilPointsMap_selectedCircles # {} )

C6_Witness ==
    /\ mounted = "SoilPointsMap"
    /\ Len(SoilPointsMap_circles) >= 2
    /\ SoilPointsMap_panelVisible
    /\ SoilPointsMap_panelSampleId = "s2"

\* The farm detail page has issued one request per value farmId has taken.
FarmPage_oneRequestPerFarmId ==
    /\ Len(farmPage.requests) >= 1
    /\ farmPage.requests[Len(farmPage.requests)].farmId = farmPage.farmId
    /\ \A i \in 1..(Len(farmPage.requests) - 1) :
          farmPage.requests[i].farmId # farmPage.requests[i + 1].farmId

\* C7: each mount of a fetching view has issued exactly one request (the
\* farm detail page one per farmId value), and no step of a mounted view
\* issues another one unless farmId changes.
C7_NoRetry ==
    /\ [] ( /\ mounted = "FarmsPage" => farmsPage.requests = 1
            /\ mounted = "FarmsDropdown" => farmsDropdown.requests = 1
            /\ mounted = "HomeMap" => homeMap.requests = 1
            /\ mounted = "SoilPointsMap" => soilPointsMap.requests = 1
            /\ mounted = "FarmPage" => FarmPage_oneRequestPerFarmId )
    /\ [][ (mounted' = mounted /\ farmPage'.farmId = farmPage.farmId) =>
              /\ farmsPage'.requests = farmsPage.requests
              /\ farmsDropdown'.requests = farmsDropdown.requests
              /\ homeMap'.requests = homeMap.requests
              /\ soilPointsMap'.requests = soilPointsMap.requests
              /\ Len(farmPage'.requests) = Len(farmPage.requests) ]_vars

C7_Witness ==
    /\ mounted = "FarmsDropdown"
    /\ farmsDropdown.request = "rejected"
    /\ farmsDropdown.isOpen

\* C8: while a component is not mounted nothing it added is left: no heatmap
\* layer group on a map, no marker in the FarmMarkers layer group, no
\* dragstart, idle or zoom_changed listener of MapController.
C8_UnmountCleansUp ==
    /\ mounted # "SoilHeatmapLayer" => heatmapLayer.layers = {}
    /\ mounted # "FarmMarkers" => farmMarkers.group.markers = <<>>
    /\ mounted # "MapController" =>
          /\ mapController.listeners.dragstart = 0
          /\ mapController.listeners.idle = 0
          /\ mapController.listeners.zoom_changed = 0

C8_Witness ==
    /\ mounted = "none"
    /\ heatmapLayer.created >= 2

\* C9: once the farms request of a page load has settled, no step of the
\* mounted farms page or farms dropdown changes its farms list.
C9_FarmsSnapshot ==
    [][ mounted' = mounted =>
          /\ farmsPage.request \in Settled => farmsPage'.farms = farmsPage.farms
          /\ farmsDropdown.request \in Settled =>
                farmsDropdown'.farms = farmsDropdown.farms ]_vars

C9_Witness ==
    /\ mounted = "FarmsDropdown"
    /\ farmsDropdown.request = "fulfilled"
    /\ Len(farmsDropdown.farms) = 2
    /\ farmsDropdown.isOpen

\* C10: for every score in 0..MaxScore the badge colour is #4ade80 iff
\* score >= 80, #facc15 iff 60 <= score < 80, #f87171 iff score < 60, and
\* the farms page and the dropdown draw the same colour.
C10_HealthColorBuckets ==
    healthBadge.page # NULL =>
        /\ healthBadge.page = "#4ade80" <=> healthBadge.score >= 80
        /\ healthBadge.page = "#facc15" <=>
              (60 <= healthBadge.score /\ healthBadge.score < 80)
        /\ healthBadge.page = "#f87171" <=> healthBadge.score < 60
        /\ healthBadge.dropdown = healthBadge.page

C10_Witness == healthBadge.page # NULL /\ healthBadge.score = 80

\* C11: once every api.getFarm request of the farm detail page has settled
\* and the one for the current farmId was fulfilled, farm and mapCenter are
\* that response's, whatever order the responses arrived in; and loading is
\* false only when the request for the current farmId has settled.
C11_CurrentFarmIdWins ==
    (mounted = "FarmPage" /\ farmPage.requests # <<>>) =>
        LET n == Len(farmPage.requests)
        IN  /\ ( /\ \A i \in 1..n : farmPage.requests[i].state \in Settled
                 /\ farmPage.requests[n].state = "fulfilled" ) =>
                    /\ farmPage.farm = ServerFarm(farmPage.farmId)
                    /\ farmPage.mapCenter = ServerFarm(farmPage.farmId).coordinates
            /\ ~farmPage.loading => farmPage.requests[n].state \in Settled

\* The views under the scheduling React and the browser guarantee: a render
\* that is due is carried out.
SpecSync == Spec /\ WF_vars(MapContainer_render)

\* C12: after a user pan or zoom of the prop-synced MapContainer the loop
\* moveend/zoomend -> parent setState -> [center]/[zoom] effect -> setView
\* comes to rest: no effect is due any more and the parent's center and
\* zoom are the map's.
C12_SyncLoopStops ==
    (mounted = "MapContainer" /\ mapContainer.userMoved)
        ~> (mounted # "MapContainer" \/ MapContainer_quiescent)

\* C13: onCenterChange and onZoomChange are never called for a viewport
\* change a programmatic flyTo started, in the interaction-tracking Leaflet
\* MapContainer and in the Google map container alike.
C13_NoCallbackAfterFlyTo ==
    /\ trackedMap.notifiedBy # "flyTo"
    /\ mapController.notifiedBy # "flyTo"

\* C14: when a user drag or a user zoom of the interaction-tracking
\* MapContainer has finished (moveend and zoomend delivered, in either
\* order), the parent has been told the map's centre and, after a zoom, the
\* map's zoom.
C14_UserMoveReported ==
    ( /\ mounted = "MapContainerTracked"
      /\ trackedMap.cause = "user"
      /\ trackedMap.pending = {} ) =>
        /\ trackedMap.toldCenter = trackedMap.mapCenter
        /\ trackedMap.zoomMoved => trackedMap.toldZoom = trackedMap.mapZoom

\* The flyTo calls made on the wrapper while the inner handle was missing,
\* and those made while it was there.
SatelliteMap_storedRequests ==
    SelectSeq(satelliteMap.requests, LAMBDA r : ~r.available)

SatelliteMap_directRequests ==
    SelectSeq(satelliteMap.requests, LAMBDA r : r.available)

\* C15: a flyTo made while the inner map component is missing is stored (and
\* replaces an earlier stored one); the first onMapReady forwards the stored
\* flyTo, the most recent of them, exactly once and clears it; a flyTo made
\* while the inner component is there is forwarded at once and stores nothing.
C15_PendingFlyTo ==
    /\ [] ( mounted = "SatelliteMap" =>
              /\ satelliteMap.pendingFlyToRef # NullObj =>
                    /\ SatelliteMap_storedRequests # <<>>
                    /\ satelliteMap.pendingFlyToRef =
                          SatelliteMap_storedRequests[Len(SatelliteMap_storedRequests)].target
                    /\ ~satelliteMap.isReady
              /\ (satelliteMap.isReady /\ SatelliteMap_storedRequests # <<>>) =>
                    satelliteMap.pendingFlyToRef = NullObj
              /\ Len(satelliteMap.forwarded) =
                    Len(SatelliteMap_directRequests)
                    + (IF satelliteMap.isReady /\ SatelliteMap_storedRequests # <<>>
                       THEN 1 ELSE 0) )
    /\ [][ /\ Len(satelliteMap'.requests) = Len(satelliteMap.requests) + 1 =>
                LET target == satelliteMap'.requests[Len(satelliteMap'.requests)].target
                IN  IF satelliteMap.mapRef
                    THEN /\ satelliteMap'.forwarded = Append(satelliteMap.forwarded, target)
                         /\ satelliteMap'.pendingFlyToRef = satelliteMap.pendingFlyToRef
                    ELSE /\ satelliteMap'.pendingFlyToRef = target
                         /\ satelliteMap'.forwarded = satelliteMap.forwarded
           /\ satelliteMap'.readyCalls = satelliteMap.readyCalls + 1 =>
                IF SatelliteMap_storedRequests # <<>> /\ ~satelliteMap.isReady
                THEN /\ satelliteMap'.forwarded =
                           Append(satelliteMap.forwarded,
                                  SatelliteMap_storedRequests[Len(SatelliteMap_storedRequests)].target)
                     /\ satelliteMap'.pendingFlyToRef = NullObj
                ELSE /\ satelliteMap'.forwarded = satelliteMap.forwarded
                     /\ satelliteMap'.pendingFlyToRef = NullObj ]_vars

C15_Witness ==
    /\ mounted = "SatelliteMap"
    /\ satelliteMap.isReady
    /\ Len(SatelliteMap_storedRequests) = 2
    /\ SatelliteMap_storedRequests[1].target # SatelliteMap_storedRequests[2].target
    /\ Len(satelliteMap.forwarded) = 2
    /\ satelliteMap.readyCalls = 2

\* C16: in every fetching view the loading flag is false once the request
\* has settled, fulfilled or rejected (farm detail page: once every request
\* has settled), and a mounted view never sets the flag back to true except
\* the farm detail page when farmId changes.
C16_LoadingEnds ==
    /\ [] ( /\ (mounted = "FarmsPage" /\ farmsPage.request \in Settled) =>
                 ~farmsPage.loading
            /\ (mounted = "FarmsDropdown" /\ farmsDropdown.request \in Settled) =>
                 ~farmsDropdown.loading
            /\ (mounted = "SoilPointsMap" /\ soilPointsMap.request \in Settled) =>
                 ~soilPointsMap.isLoading
            /\ ( /\ mounted = "FarmPage"
                 /\ \A i \in 1..Len(farmPage.requests) :
                       farmPage.requests[i].state \in Settled ) =>
                 ~farmPage.loading )
    /\ [][ mounted' = mounted =>
             /\ ~farmsPage.loading => ~farmsPage'.loading
             /\ ~farmsDropdown.loading => ~farmsDropdown'.loading
             /\ ~soilPointsMap.isLoading => ~soilPointsMap'.isLoading
             /\ (~farmPage.loading /\ farmPage'.loading) =>
                   farmPage'.farmId # farmPage.farmId ]_vars

C16_Witness ==
    /\ mounted = "FarmPage"
    /\ Len(farmPage.requests) = 2
    /\ farmPage.requests[1].state = "fulfilled"
    /\ farmPage.requests[2].state = "rejected"
    /\ ~farmPage.loading

\* C17: while SoilHeatmapLayer is mounted at most one heatmap layer group is
\* attached to a map; one is attached, to the current map, exactly when
\* Leaflet has loaded, map and farm are non-null and visible is true; and a
\* change of map, farm or visible leaves no earlier group attached: the
\* group attached afterwards, if any, is a new one.
C17_OneHeatmapLayer ==
    /\ [] ( mounted = "SoilHeatmapLayer" =>
              /\ Cardinality(heatmapLayer.layers) <= 1
              /\ heatmapLayer.layers # {} <=>
                    ( /\ heatmapLayer.L
                      /\ heatmapLayer.map # NULL
                      /\ heatmapLayer.farm # NullObj
                      /\ heatmapLayer.visible )
              /\ heatmapLayer.layers # {} =>
                    heatmapLayer.layers =
                       {<<heatmapLayer.map, heatmapLayer.markersRef>>} )
    /\ [][ ( /\ mounted = "SoilHeatmapLayer" /\ mounted' = mounted
             /\ <<heatmapLayer'.map, heatmapLayer'.farm, heatmapLayer'.visible>>
                   # <<heatmapLayer.map, heatmapLayer.farm, heatmapLayer.visible>> ) =>
              heatmapLayer'.layers \cap heatmapLayer.layers = {} ]_vars

C17_Witness ==
    /\ mounted = "SoilHeatmapLayer"
    /\ heatmapLayer.created = 3
    /\ heatmapLayer.map = "m2"
    /\ heatmapLayer.layers = {<<"m2", 3>>}

C19_GroupOnCurrentMap ==
    (mounted = "FarmMarkers" /\ farmMarkers.map # NULL) =>
        /\ farmMarkers.markersLayerRef # NULL
        /\ farmMarkers.group.onMap = farmMarkers.map

\* C20: a mounted Leaflet MapContainer (either version) has exactly one map,
\* the one mapInstanceRef holds, and running its init effect again while
\* that map exists creates nothing; onMapReady has been called once for
\* every map created; while the component is not mounted no map is left,
\* getMap() is null and initializedRef is reset; and the map of a later
\* mount is a new one.
C20_MapCreatedOnce ==
    /\ mounted = "MapContainer" =>
          /\ MapContainer_getMap = mapContainer.created
          /\ MapContainer_liveMaps = {MapContainer_getMap}
          /\ MapContainer_initEffect(mapContainer).created = mapContainer.created
          /\ MapContainer_initEffect(mapContainer).onMapReadyCalls =
                mapContainer.onMapReadyCalls
    /\ mapContainer.onMapReadyCalls = [i \in 1..mapContainer.created |-> i]
    /\ mounted # "MapContainer" =>
          /\ MapContainer_liveMaps = {}
          /\ MapContainer_getMap = NoMap
    /\ mounted = "MapContainerTracked" =>
          /\ MapContainerTracked_getMap = trackedMap.created
          /\ MapContainerTracked_liveMaps = {MapContainerTracked_getMap}
          /\ trackedMap.initialized
          /\ MapContainerTracked_initEffect(trackedMap).created = trackedMap.created
    /\ trackedMap.onMapReadyCalls = [i \in 1..trackedMap.created |-> i]
    /\ mounted # "MapContainerTracked" =>
          /\ MapContainerTracked_liveMaps = {}
          /\ MapContainerTracked_getMap = NoMap
          /\ ~trackedMap.initialized

C20_Witness ==
    /\ mounted = "MapContainer"
    /\ mapContainer.created = 2
    /\ mapContainer.removed = {1}
    /\ MapContainer_getMap = 2

\* The timers the browser runs: a pending handleSend resumes.
SpecChat == Spec /\ WF_vars(ChatButton_timerFires)

\* C21: a step that appends a user message is an accepted send: the input
\* is non-blank and farm is present, the message carries the trimmed input,
\* the input is cleared and isLoading is set; isLoading is true exactly
\* while a send waits for its reply, one at most; every user message but a
\* waiting last one is followed by exactly one assistant reply; and a
\* waiting send is eventually answered with isLoading false, also when the
\* chat window has been closed meanwhile.
C21_SendGetsOneReply ==
    /\ [][ Len(ChatButton_messagesOf("user"))' = Len(ChatButton_messagesOf("user")) + 1 =>
              /\ Trim(chatButton.inputValue) # "" /\ chatButton.farm # NullObj
              /\ chatButton'.messages =
                    Append(chatButton.messages,
                           [role |-> "user", content |-> Trim(chatButton.inputValue),
                            farm |-> chatButton.farm.id])
              /\ chatButton'.inputValue = ""
              /\ chatButton'.isLoading ]_vars
    /\ [] ( mounted = "ChatButton" =>
              /\ chatButton.isLoading <=> chatButton.pending # <<>>
              /\ Len(chatButton.pending) <= 1
              /\ Len(ChatButton_messagesOf("user")) =
                    Len(ChatButton_messagesOf("assistant"))
                    - (IF chatButton.messages # <<>> THEN 1 ELSE 0)
                    + Len(chatButton.pending)
              /\ \A i \in 1..Len(chatButton.messages) :
                    chatButton.messages[i].role = "user" =>
                       /\ i > 1
                       /\ chatButton.messages[i - 1].role = "assistant"
                       /\ IF i = Len(chatButton.messages)
                          THEN chatButton.isLoading
                          ELSE chatButton.messages[i + 1].role = "assistant" )
    /\ (mounted = "ChatButton" /\ chatButton.isLoading)
          ~> (mounted # "ChatButton" \/ ~chatButton.isLoading)

C21_Witness ==
    /\ mounted = "ChatButton"
    /\ ~chatButton.isOpen
    /\ chatButton.isLoading
    /\ Len(chatButton.messages) = 4

\* C22: on every card the farms page shows, the fallback farms included,
\* the health badge's colour and its label denote the same bucket: #4ade80
\* with "Healthy", #facc15 with "Needs Attention", #f87171 with "Critical".
C22_BadgeColourMatchesLabel ==
    mounted = "FarmsPage" =>
        \A i \in 1..Len(FarmsPage_cards) :
            LET badge == FarmsPage_healthBadge(FarmsPage_cards[i])
            IN  /\ badge.color = "#4ade80" <=> badge.label = "Healthy"
                /\ badge.color = "#facc15" <=> badge.label = "Needs Attention"
                /\ badge.color = "#f87171" <=> badge.label = "Critical"

\* What a trail says the expanded item is: after the close button none;
\* after a click on the item that was expanded none; after a click on any
\* other item that item.
AfterClick(click) ==
    IF click.id = "close-btn" \/ click.id = click.before THEN NULL ELSE click.id

\* What two clicks on the same item lead to: the state before them when it
\* was collapsed or had that item expanded, and collapsed otherwise.
AfterSameTwice(first) ==
    IF first.before \in {NULL, first.id} THEN first.before ELSE NULL

====
